---- MODULE Spec2Model ----
(***************************************************************************)
(* Cart / checkout subsystem of the furniture e-commerce backend.          *)
(*                                                                         *)
(* Money: a product's price is held in cents; an effective price (after    *)
(* the sale percentage) is held in 1/100 of a cent, so that toFixed(2) is  *)
(* a real rounding step.  Stored subtotals and totals are in cents.        *)
(***************************************************************************)
EXTENDS Integers, Sequences, FiniteSets, TLC

\* ------------------------------------------------------------------ bounds
MaxOps == 3
MaxStock == 2
MaxQty == 2
MaxTime == 3
MaxMethods == 3

Users == {"u1", "u2"}
Products == {"p1", "p2", "p3"}
Slots == {1, 2}
Prices == {96, 10000}
Sales == {0, 10}

VARIABLES products, carts, orders, slots, resp, ops, nextCid,
          accounts, now, methods

vars == <<products, carts, orders, slots, resp, ops, nextCid, accounts, now, methods>>

\* ----------------------------------------------------------- small helpers
Min(a, b) == IF a < b THEN a ELSE b

RECURSIVE SumSeq(_)
SumSeq(s) == IF s = <<>> THEN 0 ELSE Head(s) + SumSeq(Tail(s))

RECURSIVE FilterOk(_)
FilterOk(s) ==
  IF s = <<>> THEN <<>>
  ELSE IF Head(s).ok THEN <<Head(s)>> \o FilterOk(Tail(s))
  ELSE FilterOk(Tail(s))

\* Array.prototype.find / findIndex: the first index satisfying the test, 0 if none
FirstIndex(S) == IF S = {} THEN 0 ELSE CHOOSE i \in S : \A j \in S : i <= j

\* ------------------------------------------------------------- object ids
\* mongoose.Types.ObjectId.isValid: a 24 digit hex string in either letter case
IsValidObjectId(id) == id # "bad"

\* Casting a request string to an ObjectId: letter case is lost
CastObjectId(id) == IF id = "P1" THEN "p1" ELSE id

\* ObjectId.prototype.toString: the lower-case hex string
IdToString(oid) == oid

\* Product.findById: the product documents of the collection are the domain
\* of products
ProductExists(id) == CastObjectId(id) \in DOMAIN products

\* --------------------------------------------------------------- products
FindColorByHex(colors, hex) ==
  FirstIndex({i \in DOMAIN colors : colors[i].hex = hex})

FindColorByName(colors, name) ==
  FirstIndex({i \in DOMAIN colors : colors[i].name = name})

\* Number.prototype.toFixed(2) on a value held in 1/100 cent: the value in
\* cents.  toFixed rounds the double, not the decimal value: a value on a half
\* cent goes down when its double lies below it (`below`) and up otherwise;
\* off a half cent the double cannot change the result.
ToFixed2(x, below) ==
  IF x % 100 = 50 /\ below THEN x \div 100 ELSE (x + 50) \div 100

\* ------------------------------------------------- IEEE 754 double arithmetic
\* A natural number of any size, as its digits in base 2^15, lowest first
Base == 32768

RECURSIVE Pow2(_)
Pow2(k) == IF k = 0 THEN 1 ELSE 2 * Pow2(k - 1)

RECURSIVE BigNorm(_)
BigNorm(a) ==
  IF a # <<>> /\ a[Len(a)] = 0 THEN BigNorm(SubSeq(a, 1, Len(a) - 1)) ELSE a

RECURSIVE BigOfInt(_)
BigOfInt(n) == IF n = 0 THEN <<>> ELSE <<n % Base>> \o BigOfInt(n \div Base)

RECURSIVE BigAddC(_, _, _)
BigAddC(a, b, carry) ==
  IF a = <<>> /\ b = <<>> THEN (IF carry = 0 THEN <<>> ELSE <<carry>>)
  ELSE LET t == (IF a = <<>> THEN 0 ELSE Head(a)) + (IF b = <<>> THEN 0 ELSE Head(b)) + carry
       IN <<t % Base>> \o BigAddC(IF a = <<>> THEN a ELSE Tail(a),
                                  IF b = <<>> THEN b ELSE Tail(b), t \div Base)

BigAdd(a, b) == BigAddC(a, b, 0)

\* a - b for a >= b
RECURSIVE BigSubB(_, _, _)
BigSubB(a, b, borrow) ==
  IF a = <<>> THEN <<>>
  ELSE LET t == Head(a) - (IF b = <<>> THEN 0 ELSE Head(b)) - borrow
       IN <<(t + Base) % Base>> \o BigSubB(Tail(a), IF b = <<>> THEN b ELSE Tail(b),
                                           IF t < 0 THEN 1 ELSE 0)

BigSub(a, b) == BigNorm(BigSubB(a, b, 0))

\* a * d for a digit d
RECURSIVE BigMulC(_, _, _)
BigMulC(a, d, carry) ==
  IF a = <<>> THEN (IF carry = 0 THEN <<>> ELSE <<carry>>)
  ELSE LET t == Head(a) * d + carry
       IN <<t % Base>> \o BigMulC(Tail(a), d, t \div Base)

BigMulSmall(a, d) == BigNorm(BigMulC(a, d, 0))

RECURSIVE BigMul(_, _)
BigMul(a, b) ==
  IF b = <<>> THEN <<>>
  ELSE BigNorm(BigAdd(BigMulSmall(a, Head(b)), <<0>> \o BigMul(a, Tail(b))))

\* The quotient and the remainder of a by a digit d, from the highest digit down
RECURSIVE BigDivR(_, _, _)
BigDivR(a, d, rem) ==
  IF a = <<>> THEN [q |-> <<>>, r |-> rem]
  ELSE LET t == rem * Base + a[Len(a)]
           rest == BigDivR(SubSeq(a, 1, Len(a) - 1), d, t % d)
       IN [q |-> Append(rest.q, t \div d), r |-> rest.r]

BigDivSmall(a, d) ==
  LET x == BigDivR(a, d, 0) IN [q |-> BigNorm(x.q), r |-> x.r]

\* -1, 0 or 1 as a < b, a = b or a > b (both without leading zeros)
RECURSIVE BigCmp(_, _)
BigCmp(a, b) ==
  IF Len(a) # Len(b) THEN (IF Len(a) < Len(b) THEN -1 ELSE 1)
  ELSE IF a = <<>> THEN 0
  ELSE IF a[Len(a)] # b[Len(b)] THEN (IF a[Len(a)] < b[Len(b)] THEN -1 ELSE 1)
  ELSE BigCmp(SubSeq(a, 1, Len(a) - 1), SubSeq(b, 1, Len(b) - 1))

\* a * 2^k and the integer part of a / 2^k
BigShl(a, k) ==
  IF a = <<>> THEN a
  ELSE [i \in 1..(k \div 15) |-> 0] \o BigMulSmall(a, Pow2(k % 15))

BigShr(a, k) ==
  IF k \div 15 >= Len(a) THEN <<>>
  ELSE BigDivSmall(SubSeq(a, k \div 15 + 1, Len(a)), Pow2(k % 15)).q

RECURSIVE BitsOfInt(_)
BitsOfInt(n) == IF n = 0 THEN 0 ELSE 1 + BitsOfInt(n \div 2)

\* The number of binary digits of a
BigBits(a) == IF a = <<>> THEN 0 ELSE 15 * (Len(a) - 1) + BitsOfInt(a[Len(a)])

\* A double is m * 2^e with m below 2^53.  The double nearest to n * 2^e,
\* ties to the even mantissa
RoundDouble(n, e) ==
  LET drop == BigBits(n) - 53
      q == BigShr(n, drop)
      r == BigSub(n, BigShl(q, drop))
      half == BigCmp(r, BigShl(<<1>>, drop - 1))
      up == half = 1 \/ (half = 0 /\ q # <<>> /\ q[1] % 2 = 1)
  IN IF drop <= 0 THEN [m |-> n, e |-> e]
     ELSE [m |-> IF up THEN BigAdd(q, <<1>>) ELSE q, e |-> e + drop]

\* The double of n / 100 for an integer n: the quotient to 70 binary places
\* and one more digit that tells whether a remainder was left
DoubleOfHundredths(n) ==
  LET d == BigDivSmall(BigShl(BigOfInt(n), 70), 100)
  IN RoundDouble(BigAdd(BigMulSmall(d.q, 2), IF d.r = 0 THEN <<>> ELSE <<1>>), -71)

\* 1 - a for a double a in 0..1
OneMinus(a) == RoundDouble(BigSub(BigShl(<<1>>, -a.e), a.m), a.e)

\* a * b of two doubles, and q * a for an integer q
DoubleMul(a, b) == RoundDouble(BigMul(a.m, b.m), a.e + b.e)

DoubleMulInt(q, a) == RoundDouble(BigMul(BigOfInt(q), a.m), a.e)

\* Whether the double a lies below x / 10000 for an integer x
DoubleLess(a, x) ==
  IF a.e < 0
    THEN BigCmp(BigMulSmall(a.m, 10000), BigShl(BigOfInt(x), -a.e)) = -1
    ELSE BigCmp(BigShl(BigMulSmall(a.m, 10000), a.e), BigOfInt(x)) = -1

\* id.sale ? id.price * (1 - id.sale / 100) : id.price as the double the
\* program holds, for a price in cents and a sale in percent
EffectivePriceDouble(price, sale) ==
  IF sale # 0
    THEN DoubleMul(DoubleOfHundredths(price), OneMinus(DoubleOfHundredths(sale)))
    ELSE DoubleOfHundredths(price)

\* Whether the double of quantity * effective price lies below its decimal
\* value
DoubleBelowOf(price, sale, quantity) ==
  DoubleLess(DoubleMulInt(quantity, EffectivePriceDouble(price, sale)),
             quantity * price * (100 - sale))

\* Whether the double of quantity * effective price of product p lies below
\* its decimal value
DoubleBelow(p, quantity) == DoubleBelowOf(p.price, p.sale, quantity)

\* id.sale ? id.price * (1 - id.sale / 100) : id.price      (in 1/100 cent)
EffectivePrice(p) ==
  IF p.sale # 0 THEN p.price * (100 - p.sale) ELSE p.price * 100

\* ------------------------------------------------------------------ carts
\* A cart document: v is the version key (__v) mongoose keeps for the array
NullCart == [cid |-> 0, userId |-> "none", products |-> <<>>, totalPrice |-> 0, v |-> 0]

NewCart(u) == [cid |-> 0, userId |-> u, products |-> <<>>, totalPrice |-> 0, v |-> 0]

\* Cart.findOne({ userId }): the first matching document in collection order
FindCart(cs, u) ==
  LET i == FirstIndex({k \in DOMAIN cs : cs[k].userId = u})
  IN IF i = 0 THEN NullCart ELSE cs[i]

\* formatProductData(id, quantity, color) on a populated line item
FormatProductData(prods, line) ==
  LET id == prods[line.id]
      ci == FindColorByHex(id.colors, line.color.hex)
      availableQuantity == IF ci = 0 THEN 0 ELSE id.colors[ci].quantity
      finalQuantity == Min(line.quantity, availableQuantity)
      effectivePrice == EffectivePrice(id)
  IN IF line.id \notin DOMAIN prods THEN [ok |-> FALSE]
     ELSE [ok |-> ci # 0,
           id |-> line.id,
           color |-> IF ci = 0 THEN line.color
                     ELSE [name |-> id.colors[ci].name, hex |-> id.colors[ci].hex],
           quantity |-> finalQuantity,
           price |-> effectivePrice,
           subtotal |-> ToFixed2(finalQuantity * effectivePrice,
                                 DoubleBelow(id, finalQuantity))]

FormatCart(prods, cart) ==
  FilterOk([i \in DOMAIN cart.products |-> FormatProductData(prods, cart.products[i])])

\* CartSchema.pre('save'): recompute every subtotal and the total.  The unit
\* price is rounded to the cent before it is multiplied by the quantity.
\* A line whose product is not populated (no such product document) is
\* passed over: it keeps its place and its subtotal and adds nothing to the
\* total.
PreSave(prods, cart) ==
  LET price(line) == ToFixed2(EffectivePrice(prods[line.id]),
                              DoubleBelow(prods[line.id], 1))
      populated(line) == line.id \in DOMAIN prods
      lines == [i \in DOMAIN cart.products |->
                  IF populated(cart.products[i])
                    THEN [cart.products[i] EXCEPT
                            !.subtotal = cart.products[i].quantity * price(cart.products[i])]
                    ELSE cart.products[i]]
  IN [cart EXCEPT !.products = lines,
                  !.totalPrice = SumSeq([i \in DOMAIN lines |->
                                           IF populated(lines[i]) THEN lines[i].subtotal ELSE 0])]

\* Schema validation run by save(): quantity has min 1
ValidCart(cart) == \A i \in DOMAIN cart.products : cart.products[i].quantity >= 1

\* Mutant of SetChangedFields: a changed quantity is written as an increment
\* of the stored quantity
SetChangedFieldsAsIncrement(stored, loaded, hooked) ==
  [i \in DOMAIN stored |->
     IF i \in DOMAIN loaded /\ i \in DOMAIN hooked
       THEN [stored[i] EXCEPT
               !.quantity = @ + (hooked[i].quantity - loaded[i].quantity),
               !.subtotal = IF hooked[i].subtotal # loaded[i].subtotal
                              THEN hooked[i].subtotal ELSE @]
       ELSE stored[i]]

\* The positional $set of a save(): the fields of the loaded lines that the
\* request changed are written to the same positions of the stored array
SetChangedFields(stored, loaded, hooked) ==
  [i \in DOMAIN stored |->
     IF i \in DOMAIN loaded /\ i \in DOMAIN hooked
       THEN [stored[i] EXCEPT
               !.quantity = IF hooked[i].quantity # loaded[i].quantity
                              THEN hooked[i].quantity ELSE @,
               !.subtotal = IF hooked[i].subtotal # loaded[i].subtotal
                              THEN hooked[i].subtotal ELSE @]
       ELSE stored[i]]

\* The write of cart.save(), after validation and hook, of the document read
\* as `loaded` and now `hooked`: an insert (new document) or an update by _id
\* that carries only the changes:
\*   lines pushed, no loaded line changed   $push, __v incremented, no version test
\*   fields of loaded lines changed          positional $set, applied only if the
\*                                           stored __v is the loaded one
\*   splice, or push and change together     $set of the whole array, version test
\*                                           and increment
\* totalPrice is $set when the hook changed it.  An update that matches no
\* document makes save() throw.
Save(cs, loaded, hooked, newCid) ==
  LET at == FirstIndex({k \in DOMAIN cs : cs[k].cid = loaded.cid})
      stored == IF at = 0 THEN NullCart ELSE cs[at]
      n == Len(loaded.products)
      m == Len(hooked.products)
      prefixChanged == \E i \in 1..Min(n, m) : hooked.products[i] # loaded.products[i]
      arraySet == m < n \/ (m > n /\ prefixChanged)
      versionWhere == arraySet \/ (m = n /\ prefixChanged)
      newProducts == IF arraySet THEN hooked.products
                     ELSE IF m > n THEN stored.products \o SubSeq(hooked.products, n + 1, m)
                     ELSE SetChangedFields(stored.products, loaded.products, hooked.products)
      written == [stored EXCEPT
                    !.products = newProducts,
                    !.totalPrice = IF hooked.totalPrice # loaded.totalPrice
                                     THEN hooked.totalPrice ELSE @,
                    !.v = IF m # n THEN @ + 1 ELSE @]
  IN IF loaded.cid = 0
       THEN [ok |-> TRUE,
             carts |-> Append(cs, [hooked EXCEPT !.cid = newCid]),
             cart |-> [hooked EXCEPT !.cid = newCid]]
     ELSE IF at = 0 THEN [ok |-> FALSE, carts |-> cs, cart |-> hooked]
     ELSE IF versionWhere /\ stored.v # loaded.v
       THEN [ok |-> FALSE, carts |-> cs, cart |-> hooked]
     ELSE [ok |-> TRUE, carts |-> [cs EXCEPT ![at] = written], cart |-> hooked]

\* --------------------------------------------------------------- accounts
\* A Date path of a document holds a time, null, or no value (undefined)
NullDate == -1
UndefinedDate == -2

\* The life of a reset token, 10 * 60 * 1000 ms, as one tick of the clock
TokenLife == 1

\* A resetToken path holds a token, null, or no value (undefined)
NullToken == [kind |-> "null", email |-> "", iat |-> 0]
UndefinedToken == [kind |-> "undefined", email |-> "", iat |-> 0]

\* generateToken({ email }, '10m'): jwt.sign of the payload and the issue time
GenerateToken(email, t) == [kind |-> "jwt", email |-> email, iat |-> t]

\* bcrypt.hash(password, salt), compared by bcrypt.compare
Hash(password) == [hash |-> password]

\* A user document as signup stores it: no resetToken, no resetTokenExpiry
NewAccount(u) ==
  [userId |-> u, email |-> u, password |-> Hash("old"),
   resetToken |-> UndefinedToken, resetTokenExpiry |-> UndefinedDate]

\* The password path of a document that holds none (an invited user)
NoPassword == [hash |-> "undefined"]

\* ------------------------------------------------------- requests in flight
NullOrder == [userId |-> "none", orderItems |-> <<>>, shippingAddress |-> "",
              paymentMethod |-> "", transactionId |-> "", totalAmount |-> 0,
              status |-> "pending"]

\* A request in flight: its handler (op), the database round trip it waits
\* for (pc), req.user, the request body, the cart document as it was read
\* (cart) and as the handler holds it in memory (doc), the validated items,
\* the loop index or the position of the user document read (at) and the
\* Order being placed; of an account request the token, password and email of
\* the body, the resetToken and resetTokenExpiry of the document read and
\* the value of Date.now() or new Date() (time) and the password hash of the
\* document read (hash); of a placeOrder request the line items whose stock
\* update is sent and not yet answered (pending)
IdleSlot == [op |-> "idle", pc |-> "idle", user |-> "none", body |-> <<>>,
             cart |-> NullCart, doc |-> NullCart, items |-> <<>>, at |-> 0,
             order |-> NullOrder, pending |-> {}, hash |-> NoPassword,
             token |-> UndefinedToken, password |-> "", email |-> "",
             resetToken |-> UndefinedToken, resetTokenExpiry |-> UndefinedDate,
             time |-> 0]

\* A response: the route and req.user, the status, the products (or order
\* items, or shipping methods) and the total of the body, the message of an
\* error and, of an order-details response, the email of the order's user
Response(op, u, status, prodList, total) ==
  [op |-> op, user |-> u, status |-> status, products |-> prodList, totalPrice |-> total,
   message |-> "", email |-> ""]

\* next(new AppError(message, status, httpStatusText.FAIL))
Failure(op, u, status, message) ==
  [Response(op, u, status, <<>>, 0) EXCEPT !.message = message]

\* A request that has started and not yet answered (status 0)
Pending(op, u) == Response(op, u, 0, <<>>, 0)

AllIdle == \A s \in Slots : slots[s].op = "idle"

\* A request that arrives is run by the first handler that is free (which
\* one runs it makes no difference to the request)
FirstIdle(s) ==
  slots[s].op = "idle" /\ \A t \in Slots : slots[t].op = "idle" => s <= t

\* ------------------------------------------------------------------- Init
InitColors(p) ==
  IF p = "p1" THEN <<[name |-> "red", hex |-> "h1", quantity |-> 3],
                     [name |-> "red", hex |-> "h2", quantity |-> 1]>>
  ELSE IF p = "p2" THEN <<[name |-> "oak", hex |-> "h3", quantity |-> 1]>>
  ELSE <<>>

\* The catalog: p1 has two variants that share a colour name, p2 has one
\* variant, p3 has no colours.  The product schema may or may not declare a
\* product-level quantity (hasQuantity); a document holds a value for it or
\* none (quantitySet).  The carts are the stored carts cs.
InitWith(cs) ==
  /\ \E hq \in BOOLEAN :
       products = [p \in Products |->
                     [name |-> p,
                      price |-> IF p = "p1" THEN 96 ELSE 10000,
                      sale |-> IF p = "p1" THEN 10 ELSE 0,
                      colors |-> InitColors(p),
                      hasQuantity |-> hq,
                      quantitySet |-> hq,
                      quantity |-> IF hq THEN MaxStock ELSE 0]]
  /\ carts = cs
  /\ orders = <<>>
  /\ slots = [s \in Slots |-> IdleSlot]
  /\ resp = Response("none", "none", 0, <<>>, 0)
  /\ ops = 0
  /\ nextCid = Len(cs) + 1
  /\ accounts = <<NewAccount("u1"), NewAccount("u2")>>
  /\ now = 1
  /\ methods = <<>>

\* No cart is stored
Init == InitWith(<<>>)

\* The carts stored after each user has added one unit of the variant of p2,
\* which has stock 1
FilledCarts ==
  [k \in 1..2 |->
     [cid |-> k,
      userId |-> IF k = 1 THEN "u1" ELSE "u2",
      products |-> <<[id |-> "p2", color |-> [name |-> "oak", hex |-> "h3"],
                      quantity |-> 1, subtotal |-> 10000]>>,
      totalPrice |-> 10000,
      v |-> 0]]

\* Mutant of GetUserCart: a cart without line items is answered as no cart
GetUserCartEmptyIsMissing(s, u) ==
  /\ slots[s].op = "idle"
  /\ ops' = ops + 1
  /\ LET cart == FindCart(carts, u)
     IN IF cart.cid = 0 \/ cart.products = <<>>
          THEN /\ resp' = Failure("getCart", u, 404, "Cart not found.")
               /\ UNCHANGED slots
        ELSE /\ slots' = [slots EXCEPT ![s] =
                            [IdleSlot EXCEPT !.op = "get", !.pc = "populate", !.user = u,
                                             !.cart = cart]]
             /\ resp' = Pending("getCart", u)
  /\ UNCHANGED <<products, carts, orders, nextCid, accounts, now, methods>>

\* GET: Retrieve user cart.  The request arrives and Cart.findOne({ userId })
\* is answered: no cart is answered 404; a cart without line items has no
\* product to populate (no query is sent) and is answered 200 as it is; for
\* any other cart the query for its products is sent
GetUserCart(s, u) ==
  /\ slots[s].op = "idle"
  /\ ops' = ops + 1
  /\ LET cart == FindCart(carts, u)
     IN IF cart.cid = 0
          THEN /\ resp' = Failure("getCart", u, 404, "Cart not found.")
               /\ UNCHANGED slots
        ELSE IF cart.products = <<>>
          THEN /\ resp' = Response("getCart", u, 200, <<>>, cart.totalPrice)
               /\ UNCHANGED slots
        ELSE /\ slots' = [slots EXCEPT ![s] =
                            [IdleSlot EXCEPT !.op = "get", !.pc = "populate", !.user = u,
                                             !.cart = cart]]
             /\ resp' = Pending("getCart", u)
  /\ UNCHANGED <<products, carts, orders, nextCid, accounts, now, methods>>

\* .populate("products.id", ...) of getUserCart: the products of the cart that
\* was read are read now, and the 200 response is built from both
GetUserCartPopulate(s) ==
  /\ slots[s].op = "get"
  /\ slots[s].pc = "populate"
  /\ resp' = Response("getCart", slots[s].user, 200,
                      FormatCart(products, slots[s].cart), slots[s].cart.totalPrice)
  /\ slots' = [slots EXCEPT ![s] = IdleSlot]
  /\ UNCHANGED <<products, carts, orders, ops, nextCid, accounts, now, methods>>

\* ------------------------------------------------------------- addToCart
\* Request bodies of addItems: items for existing variants, an upper-case
\* spelling of p1's id, and one item for every validation failure
ItemInputs ==
  {[id |-> "p1", quantity |-> q, colorHex |-> h] : q \in 1..MaxQty, h \in {"", "h1", "h2"}}
  \cup {[id |-> "P1", quantity |-> q, colorHex |-> "h1"] : q \in 1..MaxQty}
  \cup {[id |-> "p2", quantity |-> q, colorHex |-> "h3"] : q \in 1..MaxQty}
  \cup {[id |-> "bad", quantity |-> 1, colorHex |-> ""],
        [id |-> "ghost", quantity |-> 1, colorHex |-> ""],
        [id |-> "p3", quantity |-> 1, colorHex |-> ""],
        [id |-> "p1", quantity |-> 0, colorHex |-> ""],
        [id |-> "p2", quantity |-> 1, colorHex |-> "h1"]}

\* Items of the two-item request bodies
PairInputs ==
  {[id |-> "p1", quantity |-> 1, colorHex |-> "h1"],
   [id |-> "p2", quantity |-> 1, colorHex |-> "h3"],
   [id |-> "bad", quantity |-> 1, colorHex |-> ""],
   [id |-> "ghost", quantity |-> 1, colorHex |-> ""]}

ItemLists ==
  {<<>>} \cup {<<a>> : a \in ItemInputs} \cup {<<a, b>> : a \in PairInputs, b \in PairInputs}

\* Mutant of ValidateItem: a colorHex that names no variant of the product is
\* accepted as it is
ValidateItemAnyColor(item, prods) ==
  LET product == prods[CastObjectId(item.id)]
      chosenColor == IF item.colorHex # "" THEN item.colorHex
                     ELSE IF product.colors # <<>> THEN product.colors[1].hex
                     ELSE ""
      ci == FindColorByHex(product.colors, chosenColor)
      none == [id |-> "", quantity |-> 0, color |-> [name |-> "", hex |-> ""]]
  IN IF ~IsValidObjectId(item.id) \/ item.quantity < 1
       THEN [status |-> 400, message |-> "Invalid id or quantity.", item |-> none]
     ELSE IF CastObjectId(item.id) \notin DOMAIN prods
       THEN [status |-> 404, message |-> "Product not found.", item |-> none]
     ELSE IF chosenColor = ""
       THEN [status |-> 400, message |-> "Product has no available colors.", item |-> none]
     ELSE [status |-> 0, message |-> "",
           item |-> [id |-> item.id,
                     quantity |-> item.quantity,
                     color |-> IF ci = 0 THEN [name |-> "", hex |-> chosenColor]
                               ELSE [name |-> product.colors[ci].name,
                                     hex |-> product.colors[ci].hex]]]

\* One turn of "Validate all items": the id and quantity test, the read of
\* the product and the colour tests; on success the item carries the colour
\* {name, hex} of the variant found by hex
ValidateItem(item, prods) ==
  LET product == prods[CastObjectId(item.id)]
      chosenColor == IF item.colorHex # "" THEN item.colorHex
                     ELSE IF product.colors # <<>> THEN product.colors[1].hex
                     ELSE ""
      ci == FindColorByHex(product.colors, chosenColor)
      none == [id |-> "", quantity |-> 0, color |-> [name |-> "", hex |-> ""]]
  IN IF ~IsValidObjectId(item.id) \/ item.quantity < 1
       THEN [status |-> 400, message |-> "Invalid id or quantity.", item |-> none]
     ELSE IF CastObjectId(item.id) \notin DOMAIN prods
       THEN [status |-> 404, message |-> "Product not found.", item |-> none]
     ELSE IF chosenColor = ""
       THEN [status |-> 400, message |-> "Product has no available colors.", item |-> none]
     ELSE IF ci = 0
       THEN [status |-> 400, message |-> "Color \"" \o chosenColor \o "\" not available.", item |-> none]
     ELSE [status |-> 0, message |-> "",
           item |-> [id |-> item.id,
                     quantity |-> item.quantity,
                     color |-> [name |-> product.colors[ci].name,
                                hex |-> product.colors[ci].hex]]]

\* Mutant of FindLine: the line is looked up by product only
FindLineAnyColor(lines, id, hex) ==
  FirstIndex({i \in DOMAIN lines : IdToString(lines[i].id) = id})

\* cart.products.find / findIndex((p) => p.id.toString() === id && p.color.hex === hex)
FindLine(lines, id, hex) ==
  FirstIndex({i \in DOMAIN lines : IdToString(lines[i].id) = id /\ lines[i].color.hex = hex})

\* One turn of "Add or update products in cart" on the lines of the cart
\* document in memory, with the product as it was read for this item
MergeItem(lines, item, product) ==
  LET ci == FindColorByName(product.colors, item.color.name)
      availableQuantity == IF ci = 0 THEN 0 ELSE product.colors[ci].quantity
      finalQuantity == Min(item.quantity, availableQuantity)
      existing == FindLine(lines, item.id, item.color.hex)
  IN IF finalQuantity = 0 THEN lines
     ELSE IF existing # 0
       THEN [lines EXCEPT ![existing].quantity = Min(@ + finalQuantity, availableQuantity)]
     ELSE Append(lines, [id |-> CastObjectId(item.id),
                         color |-> item.color,
                         quantity |-> finalQuantity,
                         subtotal |-> 0])

\* POST: Add products to cart.  The request arrives; a body that is no array
\* or an empty one is answered 400
AddBegin(s, u, items) ==
  /\ slots[s].op = "idle"
  /\ ops' = ops + 1
  /\ IF items = <<>>
       THEN /\ resp' = Failure("addItems", u, 400, "Invalid cart items.")
            /\ UNCHANGED slots
     ELSE /\ slots' = [slots EXCEPT ![s] =
                         [IdleSlot EXCEPT !.op = "add", !.pc = "validate", !.user = u,
                                          !.body = items, !.at = 1]]
          /\ resp' = Pending("addItems", u)
  /\ UNCHANGED <<products, carts, orders, nextCid, accounts, now, methods>>

\* await Product.findById(id).select("colors") of the validation loop and the
\* tests of that item; the first failing item answers the request
AddValidate(s) ==
  /\ slots[s].op = "add"
  /\ slots[s].pc = "validate"
  /\ LET req == slots[s]
         v == ValidateItem(req.body[req.at], products)
     IN IF v.status # 0
          THEN /\ resp' = Failure("addItems", req.user, v.status, v.message)
               /\ slots' = [slots EXCEPT ![s] = IdleSlot]
        ELSE /\ slots' = [slots EXCEPT
                            ![s].items = Append(@, v.item),
                            ![s].at = IF req.at < Len(req.body) THEN @ + 1 ELSE 1,
                            ![s].pc = IF req.at < Len(req.body) THEN @ ELSE "find"]
             /\ UNCHANGED resp
  /\ UNCHANGED <<products, carts, orders, ops, nextCid, accounts, now, methods>>

\* await Cart.findOne({ userId }), "Find or create cart"
AddFind(s) ==
  /\ slots[s].op = "add"
  /\ slots[s].pc = "find"
  /\ LET found == FindCart(carts, slots[s].user)
         cart == IF found.cid = 0 THEN NewCart(slots[s].user) ELSE found
     IN slots' = [slots EXCEPT ![s].cart = cart, ![s].doc = cart, ![s].pc = "merge"]
  /\ UNCHANGED <<products, carts, orders, resp, ops, nextCid, accounts, now, methods>>

\* await Product.findById(id).lean() of the merge loop and the merge of that
\* item; product.colors of a product that is no longer stored throws
AddMerge(s) ==
  /\ slots[s].op = "add"
  /\ slots[s].pc = "merge"
  /\ LET req == slots[s]
         item == req.items[req.at]
     IN IF CastObjectId(item.id) \notin DOMAIN products
          THEN /\ resp' = Response("addItems", req.user, 500, <<>>, 0)
               /\ slots' = [slots EXCEPT ![s] = IdleSlot]
        ELSE /\ slots' = [slots EXCEPT
                            ![s].doc.products =
                               MergeItem(@, item, products[CastObjectId(item.id)]),
                            ![s].at = IF req.at < Len(req.items) THEN @ + 1 ELSE @,
                            ![s].pc = IF req.at < Len(req.items) THEN @ ELSE "hook"]
             /\ UNCHANGED resp
  /\ UNCHANGED <<products, carts, orders, ops, nextCid, accounts, now, methods>>

\* await cart.save(), up to the write: the validation of the document, then
\* the hook, which reads the products (await this.populate) and sets the
\* subtotals and the total of the document in memory; a document that is
\* not valid rejects the save before the hook runs
AddHook(s) ==
  /\ slots[s].op = "add"
  /\ slots[s].pc = "hook"
  /\ IF ValidCart(slots[s].doc)
       THEN /\ slots' = [slots EXCEPT ![s].doc = PreSave(products, @), ![s].pc = "save"]
            /\ UNCHANGED resp
       ELSE /\ resp' = Response("addItems", slots[s].user, 500, <<>>, 0)
            /\ slots' = [slots EXCEPT ![s] = IdleSlot]
  /\ UNCHANGED <<products, carts, orders, ops, nextCid, accounts, now, methods>>

\* Mutant of AddSave: a saved request also takes one unit per item out of
\* the stock of the item's colour variant
AddSaveReserving(s) ==
  /\ slots[s].op = "add"
  /\ slots[s].pc = "save"
  /\ LET req == slots[s]
         r == Save(carts, req.cart, req.doc, nextCid)
         taken(p, hex) == Cardinality({k \in DOMAIN req.items :
                            CastObjectId(req.items[k].id) = p /\ req.items[k].color.hex = hex})
     IN /\ carts' = r.carts
        /\ IF r.ok
             THEN /\ nextCid' = IF req.cart.cid = 0 THEN nextCid + 1 ELSE nextCid
                  /\ slots' = [slots EXCEPT ![s] =
                                 [IdleSlot EXCEPT !.op = "add", !.pc = "reread",
                                                  !.user = req.user,
                                                  !.doc.totalPrice = r.cart.totalPrice]]
                  /\ products' = [p \in DOMAIN products |->
                       [products[p] EXCEPT !.colors =
                          [i \in DOMAIN products[p].colors |->
                             [products[p].colors[i] EXCEPT
                                !.quantity = @ - taken(p, products[p].colors[i].hex)]]]]
                  /\ UNCHANGED resp
           ELSE /\ resp' = Response("addItems", req.user, 500, <<>>, 0)
                /\ slots' = [slots EXCEPT ![s] = IdleSlot]
                /\ UNCHANGED <<nextCid, products>>
  /\ UNCHANGED <<orders, ops, accounts, now, methods>>

\* await cart.save(), the write; a rejected save is answered 500 by the
\* error handler.  Of its variables the handler uses from here on userId and
\* cart.totalPrice.
AddSave(s) ==
  /\ slots[s].op = "add"
  /\ slots[s].pc = "save"
  /\ LET req == slots[s]
         r == Save(carts, req.cart, req.doc, nextCid)
     IN /\ carts' = r.carts
        /\ IF r.ok
             THEN /\ nextCid' = IF req.cart.cid = 0 THEN nextCid + 1 ELSE nextCid
                  /\ slots' = [slots EXCEPT ![s] =
                                 [IdleSlot EXCEPT !.op = "add", !.pc = "reread",
                                                  !.user = req.user,
                                                  !.doc.totalPrice = r.cart.totalPrice]]
                  /\ UNCHANGED resp
           ELSE /\ resp' = Response("addItems", req.user, 500, <<>>, 0)
                /\ slots' = [slots EXCEPT ![s] = IdleSlot]
                /\ UNCHANGED nextCid
  /\ UNCHANGED <<products, orders, ops, accounts, now, methods>>

\* "Return updated cart": await Cart.findOne({ userId }); updatedCart.products
\* of no cart throws; a cart without line items has no product to populate
\* and is answered 201 with the totalPrice of the document saved; for any
\* other cart the query for its products is sent
AddReread(s) ==
  /\ slots[s].op = "add"
  /\ slots[s].pc = "reread"
  /\ LET req == slots[s]
         updatedCart == FindCart(carts, req.user)
     IN IF updatedCart.cid = 0
          THEN /\ resp' = Response("addItems", req.user, 500, <<>>, 0)
               /\ slots' = [slots EXCEPT ![s] = IdleSlot]
        ELSE IF updatedCart.products = <<>>
          THEN /\ resp' = Response("addItems", req.user, 201, <<>>, req.doc.totalPrice)
               /\ slots' = [slots EXCEPT ![s] = IdleSlot]
        ELSE /\ slots' = [slots EXCEPT ![s].cart = updatedCart, ![s].pc = "populate"]
             /\ UNCHANGED resp
  /\ UNCHANGED <<products, carts, orders, ops, nextCid, accounts, now, methods>>

\* .populate("products.id", ...).lean() of "Return updated cart" and the 201
\* response, with the products of the cart read again as they are read now
\* and the totalPrice of the document saved
AddPopulate(s) ==
  /\ slots[s].op = "add"
  /\ slots[s].pc = "populate"
  /\ resp' = Response("addItems", slots[s].user, 201,
                      FormatCart(products, slots[s].cart), slots[s].doc.totalPrice)
  /\ slots' = [slots EXCEPT ![s] = IdleSlot]
  /\ UNCHANGED <<products, carts, orders, ops, nextCid, accounts, now, methods>>

\* ------------------------------------------------------------- updateCart
UpdateInputs ==
  {[id |-> "p1", quantity |-> q, color |-> h] : q \in 0..MaxQty, h \in {"", "h1", "h2"}}
  \cup {[id |-> "p2", quantity |-> q, color |-> "h3"] : q \in 0..MaxQty}
  \cup {[id |-> "P1", quantity |-> 1, color |-> "h1"],
        [id |-> "bad", quantity |-> 1, color |-> ""],
        [id |-> "ghost", quantity |-> 1, color |-> ""],
        [id |-> "p3", quantity |-> 1, color |-> ""],
        [id |-> "p1", quantity |-> -1, color |-> ""]}

RemoveAt(seq, i) == SubSeq(seq, 1, i - 1) \o SubSeq(seq, i + 1, Len(seq))

\* Mutant of ApplyUpdate: the new quantity is clamped to the variant's stock,
\* as addItems does
ApplyUpdateClamped(lines, productIndex, quantity) ==
  LET colors == products[lines[productIndex].id].colors
      ci == FindColorByHex(colors, lines[productIndex].color.hex)
      availableQuantity == IF ci = 0 THEN 0 ELSE colors[ci].quantity
  IN IF quantity > 0
       THEN [lines EXCEPT ![productIndex].quantity = Min(quantity, availableQuantity)]
       ELSE RemoveAt(lines, productIndex)

\* cart.products[productIndex].quantity = quantity, or splice(productIndex, 1)
ApplyUpdate(lines, productIndex, quantity) ==
  IF quantity > 0
    THEN [lines EXCEPT ![productIndex].quantity = quantity]
    ELSE RemoveAt(lines, productIndex)

\* PATCH: Update cart, up to the read of the user's cart: the test of id and
\* quantity, await Product.findById(id).select("colors") and the colour of
\* the request, the product's first colour when it names none
UpdBegin(s, u, in) ==
  /\ slots[s].op = "idle"
  /\ ops' = ops + 1
  /\ LET product == products[CastObjectId(in.id)]
         color == IF in.color # "" THEN in.color
                  ELSE IF product.colors # <<>> THEN product.colors[1].hex
                  ELSE ""
         error == IF ~IsValidObjectId(in.id) \/ in.quantity < 0
                    THEN [status |-> 400, message |-> "Invalid id or quantity."]
                  ELSE IF ~ProductExists(in.id)
                    THEN [status |-> 404, message |-> "Product not found."]
                  ELSE IF color = ""
                    THEN [status |-> 400, message |-> "No available color found."]
                  ELSE [status |-> 0, message |-> ""]
     IN IF error.status # 0
          THEN /\ resp' = Failure("updateItem", u, error.status, error.message)
               /\ UNCHANGED slots
          ELSE /\ slots' = [slots EXCEPT ![s] =
                              [IdleSlot EXCEPT !.op = "upd", !.pc = "find", !.user = u,
                                               !.items = <<[in EXCEPT !.color = color]>>]]
               /\ resp' = Pending("updateItem", u)
  /\ UNCHANGED <<products, carts, orders, nextCid, accounts, now, methods>>

\* await Cart.findOne({ userId }), the search for the line item and the
\* change of the document in memory
UpdFind(s) ==
  /\ slots[s].op = "upd"
  /\ slots[s].pc = "find"
  /\ LET req == slots[s]
         in == req.items[1]
         cart == FindCart(carts, req.user)
         productIndex == FindLine(cart.products, in.id, in.color)
     IN IF cart.cid = 0
          THEN /\ resp' = Failure("updateItem", req.user, 404, "Cart not found.")
               /\ slots' = [slots EXCEPT ![s] = IdleSlot]
        ELSE IF productIndex = 0
          THEN /\ resp' = Failure("updateItem", req.user, 404, "Product not found in cart.")
               /\ slots' = [slots EXCEPT ![s] = IdleSlot]
        ELSE /\ slots' = [slots EXCEPT
                            ![s].cart = cart,
                            ![s].doc = [cart EXCEPT !.products =
                                          ApplyUpdate(cart.products, productIndex, in.quantity)],
                            ![s].pc = "hook"]
             /\ UNCHANGED resp
  /\ UNCHANGED <<products, carts, orders, ops, nextCid, accounts, now, methods>>

\* await cart.save(), up to the write: validation and hook, as in addItems
UpdHook(s) ==
  /\ slots[s].op = "upd"
  /\ slots[s].pc = "hook"
  /\ IF ValidCart(slots[s].doc)
       THEN /\ slots' = [slots EXCEPT ![s].doc = PreSave(products, @), ![s].pc = "save"]
            /\ UNCHANGED resp
       ELSE /\ resp' = Response("updateItem", slots[s].user, 500, <<>>, 0)
            /\ slots' = [slots EXCEPT ![s] = IdleSlot]
  /\ UNCHANGED <<products, carts, orders, ops, nextCid, accounts, now, methods>>

\* await cart.save(), the write; a rejected save is answered 500.  Of its
\* variables the handler uses from here on userId and the cart in memory,
\* of which the answer is taken to show the totalPrice.
UpdSave(s) ==
  /\ slots[s].op = "upd"
  /\ slots[s].pc = "save"
  /\ LET req == slots[s]
         r == Save(carts, req.cart, req.doc, nextCid)
     IN /\ carts' = r.carts
        /\ IF r.ok
             THEN /\ slots' = [slots EXCEPT ![s] =
                                 [IdleSlot EXCEPT !.op = "upd", !.pc = "populate",
                                                  !.user = req.user,
                                                  !.doc.totalPrice = r.cart.totalPrice]]
                  /\ UNCHANGED resp
           ELSE /\ resp' = Response("updateItem", req.user, 500, <<>>, 0)
                /\ slots' = [slots EXCEPT ![s] = IdleSlot]
  /\ UNCHANGED <<products, orders, ops, nextCid, accounts, now, methods>>

\* await cart.populate("products.id", ...) and the 200 response
UpdPopulate(s) ==
  /\ slots[s].op = "upd"
  /\ slots[s].pc = "populate"
  /\ resp' = Response("updateItem", slots[s].user, 200, <<>>, slots[s].doc.totalPrice)
  /\ slots' = [slots EXCEPT ![s] = IdleSlot]
  /\ UNCHANGED <<products, carts, orders, ops, nextCid, accounts, now, methods>>

\* ------------------------------------------------------------- placeOrder
\* item.quantity > item.id.quantity, where item.id is the populated product
\* (a comparison with undefined is false)
InsufficientStock(prods, line) ==
  /\ prods[line.id].hasQuantity
  /\ prods[line.id].quantitySet
  /\ line.quantity > prods[line.id].quantity

\* cart.products.map((item) => ({ id, name, quantity, price: item.subtotal, color }))
OrderItems(prods, cart) ==
  [i \in DOMAIN cart.products |->
     [id |-> cart.products[i].id,
      name |-> prods[cart.products[i].id].name,
      quantity |-> cart.products[i].quantity,
      price |-> cart.products[i].subtotal,
      color |-> cart.products[i].color]]

\* const { shippingAddress, paymentMethod, transactionId } = req.body
CheckoutBody ==
  [shippingAddress |-> "address", paymentMethod |-> "card", transactionId |-> "tx"]

\* Mutant of CartIsEmpty: only a missing cart counts as empty
CartIsEmptyMissingOnly(cart) == cart.cid = 0

\* !cart || cart.products.length === 0
CartIsEmpty(cart) == cart.cid = 0 \/ Len(cart.products) = 0

\* `Not enough stock for ${item.id.name}. Available: ${item.id.quantity}
\* Requested: ${item.quantity}`
NotEnoughStock(prods, line) ==
  "Not enough stock for " \o prods[line.id].name
    \o ". Available: " \o ToString(prods[line.id].quantity)
    \o " Requested: " \o ToString(line.quantity)

\* placeOrder: the request arrives and Cart.findOne({ userId }) is answered.
\* No cart, or a cart without line items (it has no product to populate, no
\* query is sent), is answered 400; for any other cart the query for its
\* products is sent
OrdBegin(s, u) ==
  /\ slots[s].op = "idle"
  /\ ops' = ops + 1
  /\ LET cart == FindCart(carts, u)
     IN IF CartIsEmpty(cart)
          THEN /\ resp' = Failure("placeOrder", u, 400, "Cart is empty")
               /\ UNCHANGED slots
        ELSE /\ slots' = [slots EXCEPT ![s] =
                            [IdleSlot EXCEPT !.op = "order", !.pc = "populate", !.user = u,
                                             !.cart = cart]]
             /\ resp' = Pending("placeOrder", u)
  /\ UNCHANGED <<products, carts, orders, nextCid, accounts, now, methods>>

\* .populate('products.id') of placeOrder and the code up to order.save():
\* the products of the cart that was read are read now; the items are
\* snapshot (item.id._id of a line that is not populated throws, and the
\* catch block answers 500), the stock is checked line by line (the first
\* line that fails is answered 400) and the Order is built
OrdPopulate(s) ==
  /\ slots[s].op = "order"
  /\ slots[s].pc = "populate"
  /\ LET req == slots[s]
         cart == req.cart
         short == {i \in DOMAIN cart.products : InsufficientStock(products, cart.products[i])}
     IN IF \E i \in DOMAIN cart.products : cart.products[i].id \notin DOMAIN products
          THEN /\ resp' = Failure("placeOrder", req.user, 500, "Failed to place order")
               /\ slots' = [slots EXCEPT ![s] = IdleSlot]
        ELSE IF short # {}
          THEN /\ resp' = Failure("placeOrder", req.user, 400,
                                  NotEnoughStock(products, cart.products[FirstIndex(short)]))
               /\ slots' = [slots EXCEPT ![s] = IdleSlot]
        ELSE /\ slots' = [slots EXCEPT
                            ![s].pc = "save",
                            ![s].order = [userId |-> req.user,
                                          orderItems |-> OrderItems(products, cart),
                                          shippingAddress |-> CheckoutBody.shippingAddress,
                                          paymentMethod |-> CheckoutBody.paymentMethod,
                                          transactionId |-> CheckoutBody.transactionId,
                                          totalAmount |-> ToFixed2(cart.totalPrice * 100, FALSE),
                                          status |-> "pending"]]
             /\ UNCHANGED resp
  /\ UNCHANGED <<products, carts, orders, ops, nextCid, accounts, now, methods>>

\* await order.save(): the Order is stored and one Product.updateOne per line
\* item is sent, or the save is rejected and the catch block answers 500 with
\* nothing written
OrdSave(s) ==
  /\ slots[s].op = "order"
  /\ slots[s].pc = "save"
  /\ \E saved \in BOOLEAN :
       IF saved
         THEN /\ orders' = Append(orders, slots[s].order)
              /\ slots' = [slots EXCEPT ![s].pc = "dec",
                                        ![s].pending = DOMAIN slots[s].cart.products]
              /\ UNCHANGED resp
         ELSE /\ resp' = Failure("placeOrder", slots[s].user, 500, "Failed to place order")
              /\ slots' = [slots EXCEPT ![s] = IdleSlot]
              /\ UNCHANGED orders
  /\ UNCHANGED <<products, carts, ops, nextCid, accounts, now, methods>>

\* The sum of the quantities of the lines of a cart that name product p
RECURSIVE Purchased(_, _)
Purchased(lines, p) ==
  IF lines = <<>> THEN 0
  ELSE (IF Head(lines).id = p THEN Head(lines).quantity ELSE 0) + Purchased(Tail(lines), p)

\* The sum of the quantities of the lines that name variant hex of product p
RECURSIVE PurchasedVariant(_, _, _)
PurchasedVariant(lines, p, hex) ==
  IF lines = <<>> THEN 0
  ELSE (IF Head(lines).id = p /\ Head(lines).color.hex = hex THEN Head(lines).quantity ELSE 0)
       + PurchasedVariant(Tail(lines), p, hex)

\* Mutant of DecrementStock: the decrement is applied to the colour variants
DecrementVariantStock(prods, lines) ==
  [p \in DOMAIN prods |->
     [prods[p] EXCEPT !.colors =
        [i \in DOMAIN prods[p].colors |->
           [prods[p].colors[i] EXCEPT
              !.quantity = @ - PurchasedVariant(lines, p, prods[p].colors[i].hex)]]]]

\* Mutant of DecrementStock: the decrement of a product is applied only when
\* the stock covers it
DecrementStockGuarded(prods, lines) ==
  [p \in DOMAIN prods |->
     IF prods[p].hasQuantity /\ prods[p].quantity >= Purchased(lines, p)
       THEN [prods[p] EXCEPT !.quantity = @ - Purchased(lines, p),
                             !.quantitySet = @ \/ Purchased(lines, p) > 0]
       ELSE prods[p]]

\* Product.updateOne({ _id }, { $inc: { quantity: -item.quantity } }) for every
\* line; a path the schema does not declare is dropped from the update, and
\* $inc of a path the document holds no value for sets it to the increment
DecrementStock(prods, lines) ==
  [p \in DOMAIN prods |->
     IF prods[p].hasQuantity
       THEN [prods[p] EXCEPT !.quantity = @ - Purchased(lines, p),
                             !.quantitySet = @ \/ Purchased(lines, p) > 0]
       ELSE prods[p]]



\* await Promise.all(updatePromises): the updates of the line items are sent
\* together and answered one by one, in any order; each is applied or
\* rejected by the database.  When all are applied the request goes on to
\* delete the cart.  The first rejection makes Promise.all reject and the
\* catch block answer 500; the updates not yet answered are still applied or
\* rejected after that answer (pc "answered").
OrdDec(s) ==
  /\ slots[s].op = "order"
  /\ slots[s].pc \in {"dec", "answered"}
  /\ \E i \in slots[s].pending, applied \in BOOLEAN :
       LET rest == slots[s].pending \ {i}
       IN /\ products' = IF applied
                           THEN DecrementStock(products, <<slots[s].cart.products[i]>>)
                           ELSE products
          /\ IF slots[s].pc = "dec" /\ applied
               THEN /\ slots' = [slots EXCEPT ![s].pending = rest,
                                              ![s].pc = IF rest = {} THEN "del" ELSE "dec"]
                    /\ UNCHANGED resp
             ELSE /\ slots' = [slots EXCEPT ![s] =
                                 IF rest = {} THEN IdleSlot
                                 ELSE [slots[s] EXCEPT !.pending = rest, !.pc = "answered"]]
                  /\ resp' = IF slots[s].pc = "dec"
                               THEN Failure("placeOrder", slots[s].user, 500,
                                            "Failed to place order")
                               ELSE resp
  /\ UNCHANGED <<carts, orders, ops, nextCid, accounts, now, methods>>

\* Cart.findOneAndDelete(userId): the argument is an id, not a filter.  A
\* string id is ignored as a filter (the first cart of the collection is
\* deleted) or rejected by the query builder; an ObjectId is taken as
\* { _id: userId } (no cart has that _id).
DeleteModes == {"first", "byId", "rejected"}

DeleteCart(cs, mode) ==
  IF mode = "first" /\ cs # <<>> THEN Tail(cs) ELSE cs

\* Mutant of OrdDel: when the deletion is rejected the persisted Order is
\* removed again before the 500 response
OrdDelRollback(s) ==
  /\ slots[s].op = "order"
  /\ slots[s].pc = "del"
  /\ \E mode \in DeleteModes :
       /\ carts' = DeleteCart(carts, mode)
       /\ orders' = IF mode = "rejected" THEN SubSeq(orders, 1, Len(orders) - 1) ELSE orders
       /\ resp' = IF mode = "rejected"
                    THEN Failure("placeOrder", slots[s].user, 500, "Failed to place order")
                    ELSE Response("placeOrder", slots[s].user, 201, <<>>,
                                  slots[s].order.totalAmount)
  /\ slots' = [slots EXCEPT ![s] = IdleSlot]
  /\ UNCHANGED <<products, ops, nextCid, accounts, now, methods>>

\* await Cart.findOneAndDelete(userId) and the 201 response (500 from the
\* catch block when the call throws)
OrdDel(s) ==
  /\ slots[s].op = "order"
  /\ slots[s].pc = "del"
  /\ \E mode \in DeleteModes :
       /\ carts' = DeleteCart(carts, mode)
       /\ resp' = IF mode = "rejected"
                    THEN Failure("placeOrder", slots[s].user, 500, "Failed to place order")
                    ELSE Response("placeOrder", slots[s].user, 201, <<>>,
                                  slots[s].order.totalAmount)
  /\ slots' = [slots EXCEPT ![s] = IdleSlot]
  /\ UNCHANGED <<products, orders, ops, nextCid, accounts, now, methods>>

\* ----------------------------------------------------------- order status
\* The role stored in the user document and carried by the user's token
Role(u) == IF u = "u2" THEN "ADMIN" ELSE "USER"

\* verifyToken: the request carries a valid token of a user; the middleware
\* sets req.user from the token and tests no role (role tests are the separate
\* allowedTo middleware of the routes that have one)
VerifyToken(u) == u \in Users

\* Values of req.body.status
Statuses == {"shipped", "cancelled"}

\* Values of req.params.id: the ids of the stored orders (their positions),
\* 0 for a well-formed id of no order, -1 for a malformed id
OrderIds == -1 .. Len(orders)

\* Mutant of UpdateOrderStatus: the status is written to every order of the
\* owner of the addressed order
UpdateOrderStatusOfOwner(u, id, status) ==
  /\ VerifyToken(u)
  /\ ops' = ops + 1
  /\ IF id = -1
       THEN /\ resp' = Response("updateOrderStatus", u, 500, <<>>, 0)
            /\ UNCHANGED orders
     ELSE IF id \notin DOMAIN orders
       THEN /\ resp' = Response("updateOrderStatus", u, 404, <<>>, 0)
            /\ UNCHANGED orders
     ELSE /\ orders' = [k \in DOMAIN orders |->
                         IF orders[k].userId = orders[id].userId
                           THEN [orders[k] EXCEPT !.status = status]
                           ELSE orders[k]]
          /\ resp' = Response("updateOrderStatus", u, 200, <<>>, 0)
  /\ UNCHANGED <<products, carts, slots, nextCid, accounts, now, methods>>

\* router.patch('/:id/status', verifyToken, orderController.updateOrderStatus):
\* the request of an authenticated user u reaches the handler whatever u's
\* role is; the handler is Order.findByIdAndUpdate(id, { status })
UpdateOrderStatus(u, id, status) ==
  /\ VerifyToken(u)
  /\ ops' = ops + 1
  /\ IF id = -1
       THEN /\ resp' = Response("updateOrderStatus", u, 500, <<>>, 0)
            /\ UNCHANGED orders
     ELSE IF id \notin DOMAIN orders
       THEN /\ resp' = Response("updateOrderStatus", u, 404, <<>>, 0)
            /\ UNCHANGED orders
     ELSE /\ orders' = [orders EXCEPT ![id].status = status]
          /\ resp' = Response("updateOrderStatus", u, 200, <<>>, 0)
  /\ UNCHANGED <<products, carts, slots, nextCid, accounts, now, methods>>

\* getOrderDetails: the order with its items; id and name are read from the
\* populated product of each item ('Unknown Product' when there is none),
\* price, quantity and colour from the order item
OrderDetailsItems(prods, order) ==
  [i \in DOMAIN order.orderItems |->
     LET item == order.orderItems[i]
         populated == item.id \in DOMAIN prods
     IN [id |-> IF populated THEN item.id ELSE "null",
         name |-> IF populated THEN prods[item.id].name ELSE "Unknown Product",
         price |-> item.price,
         quantity |-> item.quantity,
         color |-> item.color,
         total |-> item.price * item.quantity]]

\* getOrderDetails: the request arrives and Order.findById(id) is answered:
\* an id that is no ObjectId throws, no order is answered 404; for an order
\* the queries of the two populate paths are sent
GetOrderDetails(s, u, id) ==
  /\ VerifyToken(u)
  /\ slots[s].op = "idle"
  /\ ops' = ops + 1
  /\ IF id = -1
       THEN /\ resp' = Response("getOrderDetails", u, 500, <<>>, 0)
            /\ UNCHANGED slots
     ELSE IF id \notin DOMAIN orders
       THEN /\ resp' = Failure("getOrderDetails", u, 404, "Order not found")
            /\ UNCHANGED slots
     ELSE /\ slots' = [slots EXCEPT ![s] =
                         [IdleSlot EXCEPT !.op = "details", !.pc = "populate", !.user = u,
                                          !.order = orders[id]]]
          /\ resp' = Pending("getOrderDetails", u)
  /\ UNCHANGED <<products, carts, orders, nextCid, accounts, now, methods>>

\* order.userId?.email || 'N/A' of the populated user of an order
OrderUserEmail(accs, order) ==
  LET k == FirstIndex({j \in DOMAIN accs : accs[j].userId = order.userId})
  IN IF k = 0 THEN "N/A" ELSE accs[k].email

\* The answers of the two populate queries of getOrderDetails, path userId
\* (the user document) and path orderItems.id (the product documents), which
\* arrive in either order; the second to arrive completes the query and the
\* 200 response is sent.  pc names the path still awaited: "populate" both,
\* "userId" or "orderItems.id" that one.
GetOrderPopulate(s) ==
  /\ slots[s].op = "details"
  /\ \E path \in {"userId", "orderItems.id"} :
       /\ slots[s].pc \in {"populate", path}
       /\ LET req == slots[s]
              email == IF path = "userId" THEN OrderUserEmail(accounts, req.order)
                       ELSE req.email
              items == IF path = "orderItems.id" THEN OrderDetailsItems(products, req.order)
                       ELSE req.items
          IN IF req.pc = "populate"
               THEN /\ slots' = [slots EXCEPT
                                   ![s].email = email,
                                   ![s].items = items,
                                   ![s].pc = IF path = "userId" THEN "orderItems.id"
                                             ELSE "userId"]
                    /\ UNCHANGED resp
             ELSE /\ resp' = [Response("getOrderDetails", req.user, 200, items,
                                       req.order.totalAmount) EXCEPT !.email = email]
                  /\ slots' = [slots EXCEPT ![s] = IdleSlot]
  /\ UNCHANGED <<products, carts, orders, ops, nextCid, accounts, now, methods>>

\* --------------------------------------------------------- password reset
\* Values of req.body.email, req.body.password and req.body.token: the token
\* may be missing or null, or any token that was or could have been issued
Emails == Users \cup {"nobody"}

Passwords == {"new1", "new2"}

\* The users and the bodies of the changePassword requests; the emails of
\* the signup, inviteAdmin and editUser requests
ChangeUsers == {"u1"}

ChangePasswords == {"", "old", "new2"}

NewEmails == {"u1", "u3"}

ResetTokens ==
  {NullToken, UndefinedToken} \cup {GenerateToken(e, t) : e \in Users, t \in 1..now}

\* The match of the filter { resetToken: token } on a stored resetToken: an
\* equal value; a null or undefined filter value is sent as null and matches
\* a path that is null or has no value
MatchesToken(stored, token) ==
  IF token.kind = "jwt" THEN stored = token
  ELSE stored.kind \in {"null", "undefined"}

\* user.resetTokenExpiry < Date.now(): undefined compares false, null is 0
Expired(expiry, t) ==
  IF expiry = UndefinedDate THEN FALSE
  ELSE IF expiry = NullDate THEN 0 < t
  ELSE expiry < t

\* user.save() sends the paths whose value differs from the one read: the
\* stored value of a path after a save that assigned `value` to it
Saved(stored, read, value) == IF value = read THEN stored ELSE value

\* POST /forgot-password up to the new token: userModel.findOne({ email }),
\* the first match in collection order
ForgotBegin(s, email) ==
  /\ slots[s].op = "idle"
  /\ ops' = ops + 1
  /\ LET i == FirstIndex({k \in DOMAIN accounts : accounts[k].email = email})
     IN IF i = 0
          THEN /\ resp' = Failure("forgotPassword", "none", 400,
                                  "User with this email doesn't exist.")
               /\ UNCHANGED slots
        ELSE /\ slots' = [slots EXCEPT ![s] =
                            [IdleSlot EXCEPT !.op = "forgot", !.pc = "save", !.at = i,
                                             !.email = accounts[i].email,
                                             !.resetToken = accounts[i].resetToken,
                                             !.resetTokenExpiry = accounts[i].resetTokenExpiry,
                                             !.time = now]]
             /\ resp' = Pending("forgotPassword", "none")
  /\ UNCHANGED <<products, carts, orders, nextCid, accounts, now, methods>>

\* await user.save() of forgotPassword: the token and its expiry are stored,
\* then the mail is handed to the transporter
ForgotSave(s) ==
  /\ slots[s].op = "forgot"
  /\ slots[s].pc = "save"
  /\ LET req == slots[s]
     IN accounts' = [accounts EXCEPT
                       ![req.at].resetToken =
                          Saved(@, req.resetToken, GenerateToken(req.email, req.time)),
                       ![req.at].resetTokenExpiry =
                          Saved(@, req.resetTokenExpiry, req.time + TokenLife)]
  /\ slots' = [slots EXCEPT ![s].pc = "mail"]
  /\ UNCHANGED <<products, carts, orders, resp, ops, nextCid, now, methods>>

\* The callback of transporter.sendMail of forgotPassword and inviteAdmin:
\* 200 when the mail was sent, 500 on a mail error; what was saved before
\* the mail stays stored
SendMail(s) ==
  /\ slots[s].op \in {"forgot", "inviteAdmin"}
  /\ slots[s].pc = "mail"
  /\ LET route == IF slots[s].op = "forgot" THEN "forgotPassword" ELSE "inviteAdmin"
     IN \E sent \in BOOLEAN :
          resp' = IF sent THEN Response(route, "none", 200, <<>>, 0)
                  ELSE Failure(route, "none", 500,
                               IF slots[s].op = "forgot" THEN "Error sending email."
                               ELSE "Error sending invitation email.")
  /\ slots' = [slots EXCEPT ![s] = IdleSlot]
  /\ UNCHANGED <<products, carts, orders, ops, nextCid, accounts, now, methods>>

\* POST /reset-password up to the test of the token:
\* userModel.findOne({ resetToken: token }), the first match
ResetBegin(s, token, password) ==
  /\ slots[s].op = "idle"
  /\ ops' = ops + 1
  /\ LET i == FirstIndex({k \in DOMAIN accounts :
                            MatchesToken(accounts[k].resetToken, token)})
     IN IF i = 0 \/ Expired(accounts[i].resetTokenExpiry, now)
          THEN /\ resp' = Failure("resetPassword", "none", 400, "Invalid or expired token.")
               /\ UNCHANGED slots
        ELSE /\ slots' = [slots EXCEPT ![s] =
                            [IdleSlot EXCEPT !.op = "reset", !.pc = "save", !.at = i,
                                             !.token = token, !.password = password,
                                             !.resetToken = accounts[i].resetToken,
                                             !.resetTokenExpiry = accounts[i].resetTokenExpiry]]
             /\ resp' = Pending("resetPassword", "none")
  /\ UNCHANGED <<products, carts, orders, nextCid, accounts, now, methods>>

\* await user.save() of resetPassword: the new hash, and null for the token
\* and its expiry
ResetSave(s) ==
  /\ slots[s].op = "reset"
  /\ slots[s].pc = "save"
  /\ LET req == slots[s]
     IN accounts' = [accounts EXCEPT
                       ![req.at].password = Hash(req.password),
                       ![req.at].resetToken = Saved(@, req.resetToken, NullToken),
                       ![req.at].resetTokenExpiry = Saved(@, req.resetTokenExpiry, NullDate)]
  /\ resp' = Response("resetPassword", "none", 200, <<>>, 0)
  /\ slots' = [slots EXCEPT ![s] = IdleSlot]
  /\ UNCHANGED <<products, carts, orders, ops, nextCid, now, methods>>

\* changePassword: the test of the body and User.findById(req.user._id); the
\* hash compared and the save that follows are those of the document read
ChangeBegin(s, u, password) ==
  /\ VerifyToken(u)
  /\ slots[s].op = "idle"
  /\ ops' = ops + 1
  /\ LET i == FirstIndex({k \in DOMAIN accounts : accounts[k].userId = u})
     IN IF password = ""
          THEN /\ resp' = Failure("changePassword", u, 400, "Password is required")
               /\ UNCHANGED slots
        ELSE IF i = 0
          THEN /\ resp' = Failure("changePassword", u, 404, "User not found")
               /\ UNCHANGED slots
        ELSE /\ slots' = [slots EXCEPT ![s] =
                            [IdleSlot EXCEPT !.op = "change", !.pc = "compare", !.user = u,
                                             !.at = i, !.password = password,
                                             !.hash = accounts[i].password]]
             /\ resp' = Pending("changePassword", u)
  /\ UNCHANGED <<products, carts, orders, nextCid, accounts, now, methods>>

\* await bcrypt.compare(password, user.password) with the hash of the
\* document read (it throws when there is none): the same password is
\* answered 400
ChangeCompare(s) ==
  /\ slots[s].op = "change"
  /\ slots[s].pc = "compare"
  /\ LET req == slots[s]
         stored == req.hash
     IN IF stored = NoPassword
          THEN /\ resp' = Response("changePassword", req.user, 500, <<>>, 0)
               /\ slots' = [slots EXCEPT ![s] = IdleSlot]
        ELSE IF stored = Hash(req.password)
          THEN /\ resp' = Failure("changePassword", req.user, 400,
                                  "New password must be different from the old one")
               /\ slots' = [slots EXCEPT ![s] = IdleSlot]
        ELSE /\ slots' = [slots EXCEPT ![s].pc = "save"]
             /\ UNCHANGED resp
  /\ UNCHANGED <<products, carts, orders, ops, nextCid, accounts, now, methods>>

\* await user.save() of changePassword
ChangeSave(s) ==
  /\ slots[s].op = "change"
  /\ slots[s].pc = "save"
  /\ accounts' = [accounts EXCEPT ![slots[s].at].password = Hash(slots[s].password)]
  /\ resp' = Response("changePassword", slots[s].user, 200, <<>>, 0)
  /\ slots' = [slots EXCEPT ![s] = IdleSlot]
  /\ UNCHANGED <<products, carts, orders, ops, nextCid, now, methods>>

\* Whether a user document holds the email: the unique index of the email
\* path rejects a second one
EmailStored(email) == \E k \in DOMAIN accounts : accounts[k].email = email

\* POST /signup and inviteAdmin up to the new document:
\* userModel.findOne({ email }) and the 400 when it finds a user.  signup
\* stores the hash of the password, inviteAdmin stores no password.
SignupBegin(s, op, email, password) ==
  /\ slots[s].op = "idle"
  /\ ops' = ops + 1
  /\ IF EmailStored(email)
       THEN /\ resp' = Failure(op, "none", 400, "User with this email already exists.")
            /\ UNCHANGED slots
     ELSE /\ slots' = [slots EXCEPT ![s] =
                         [IdleSlot EXCEPT !.op = op, !.pc = "create",
                                          !.email = email, !.password = password]]
          /\ resp' = Pending(op, "none")
  /\ UNCHANGED <<products, carts, orders, nextCid, accounts, now, methods>>

\* await userModel.create(userData) of signup, answered 201, and
\* await newUser.save() of inviteAdmin, after which the mail is handed to the
\* transporter; a second document with the email is rejected by the unique
\* index and answered 500
SignupCreate(s) ==
  /\ slots[s].op \in {"signup", "inviteAdmin"}
  /\ slots[s].pc = "create"
  /\ LET req == slots[s]
     IN IF EmailStored(req.email)
          THEN /\ resp' = Response(req.op, "none", 500, <<>>, 0)
               /\ slots' = [slots EXCEPT ![s] = IdleSlot]
               /\ UNCHANGED accounts
        ELSE /\ accounts' = Append(accounts,
                               [NewAccount(req.email) EXCEPT
                                  !.password = IF req.op = "signup" THEN Hash(req.password)
                                               ELSE NoPassword])
             /\ IF req.op = "signup"
                  THEN /\ resp' = Response(req.op, "none", 201, <<>>, 0)
                       /\ slots' = [slots EXCEPT ![s] = IdleSlot]
                  ELSE /\ slots' = [slots EXCEPT ![s].pc = "mail"]
                       /\ UNCHANGED resp
  /\ UNCHANGED <<products, carts, orders, ops, nextCid, now, methods>>

\* editUser with an email, up to the update: the search for another user
\* with that email
EditBegin(s, userId, email) ==
  /\ slots[s].op = "idle"
  /\ ops' = ops + 1
  /\ IF \E k \in DOMAIN accounts : accounts[k].email = email /\ accounts[k].userId # userId
       THEN /\ resp' = Failure("editUser", "none", 400, "Email already in use")
            /\ UNCHANGED slots
     ELSE /\ slots' = [slots EXCEPT ![s] =
                         [IdleSlot EXCEPT !.op = "edit", !.pc = "update",
                                          !.user = userId, !.email = email]]
          /\ resp' = Pending("editUser", "none")
  /\ UNCHANGED <<products, carts, orders, nextCid, accounts, now, methods>>

\* await User.findOneAndUpdate({ _id: userId }, { $set: updates })
EditUpdate(s) ==
  /\ slots[s].op = "edit"
  /\ LET req == slots[s]
         i == FirstIndex({k \in DOMAIN accounts : accounts[k].userId = req.user})
     IN IF i = 0
          THEN /\ resp' = Failure("editUser", "none", 404, "User not found")
               /\ UNCHANGED accounts
        ELSE IF \E k \in DOMAIN accounts \ {i} : accounts[k].email = req.email
          THEN /\ resp' = Response("editUser", "none", 500, <<>>, 0)
               /\ UNCHANGED accounts
        ELSE /\ accounts' = [accounts EXCEPT ![i].email = req.email]
             /\ resp' = Response("editUser", "none", 200, <<>>, 0)
  /\ slots' = [slots EXCEPT ![s] = IdleSlot]
  /\ UNCHANGED <<products, carts, orders, ops, nextCid, now, methods>>

\* Time passes
Tick ==
  /\ now < MaxTime
  /\ now' = now + 1
  /\ UNCHANGED <<products, carts, orders, slots, resp, ops, nextCid, accounts, methods>>

\* ----------------------------------------------------------- store config
\* The shipping methods are a sequence in collection order; the _id of a
\* method is its position. In a request, _id 0 stands for an entry without
\* _id and -1 for a well-formed id of no stored method. An entry is either
\* { _id, name, cost } or, when `full`, a document as getStoreConfig returned
\* it: { _id, name, cost, isActive: true, deletedAt: null }.
MethodNames == {"std", "fast"}

MethodCost == 5

MethodData ==
  [_id : -1 .. Len(methods), name : MethodNames, cost : {MethodCost}, full : BOOLEAN]

\* Values of req.body: without shippingMethods, or with a list of up to two
\* entries (two entries carry the two names)
ConfigBodies ==
  {[hasList |-> FALSE, shippingMethods |-> <<>>]} \cup
  {[hasList |-> TRUE, shippingMethods |-> l] :
     l \in {<<>>} \cup {<<d>> : d \in MethodData}
          \cup {<<d, e>> : d \in {m \in MethodData : m.name = "std"},
                           e \in {m \in MethodData : m.name = "fast"}}}

\* allowedTo(...roles): the role of req.user is one of the roles
AllowedTo(roles, u) == Role(u) \in roles

\* ShippingMethod.create(methodData): the schema defaults of a new document
CreateMethod(d) ==
  [name |-> d.name, cost |-> d.cost, isActive |-> TRUE, deletedAt |-> NullDate]

\* One turn of the loop: findByIdAndUpdate sets the fields of the entry on the
\* document with that _id, if there is one; an entry without _id is created
ApplyMethod(ms, d) ==
  IF d._id # 0
    THEN IF d._id \in DOMAIN ms
           THEN [ms EXCEPT ![d._id].name = d.name, ![d._id].cost = d.cost,
                           ![d._id].isActive = IF d.full THEN TRUE ELSE @,
                           ![d._id].deletedAt = IF d.full THEN NullDate ELSE @]
         ELSE ms
  ELSE Append(ms, CreateMethod(d))

\* shippingMethods.map(m => m._id).filter(Boolean)
ReceivedMethodIds(list) == {list[i]._id : i \in DOMAIN list} \ {0}

\* updateMany({ _id: { $nin: received }, deletedAt: null },
\*            { $set: { deletedAt: new Date(), isActive: false } })
SoftDeleteOthers(ms, received, t) ==
  [k \in DOMAIN ms |->
     IF k \notin received /\ ms[k].deletedAt = NullDate
       THEN [ms[k] EXCEPT !.deletedAt = t, !.isActive = FALSE]
     ELSE ms[k]]

\* ShippingMethod.find({ deletedAt: null, isActive: true }), with the _id
ActiveMethods(ms) ==
  LET keep == {k \in DOMAIN ms : ms[k].deletedAt = NullDate /\ ms[k].isActive}
      RECURSIVE from(_)
      from(k) ==
        IF k > Len(ms) THEN <<>>
        ELSE IF k \in keep
          THEN <<[_id |-> k, name |-> ms[k].name, cost |-> ms[k].cost]>> \o from(k + 1)
        ELSE from(k + 1)
  IN from(1)

\* GET /store-config: the shipping methods of the answer; the settings,
\* currencies and languages of the answer are other collections
GetStoreConfig(u) ==
  /\ VerifyToken(u)
  /\ ops' = ops + 1
  /\ resp' = IF AllowedTo({"ADMIN", "MANAGER"}, u)
               THEN Response("getStoreConfig", u, 200, ActiveMethods(methods), 0)
             ELSE Failure("getStoreConfig", u, 403, "")
  /\ UNCHANGED <<products, carts, orders, slots, nextCid, accounts, now, methods>>

\* PUT /store-config, the shippingMethods part of the body: the request
\* arrives.  A body without the list (or with a value that is no array) is
\* answered after the writes of the other collections.  With an empty list
\* the updateMany is sent at once, with the new Date() of this moment.
ConfigBegin(s, u, body) ==
  /\ VerifyToken(u)
  /\ slots[s].op = "idle"
  /\ ops' = ops + 1
  /\ IF ~AllowedTo({"ADMIN", "MANAGER"}, u)
       THEN /\ resp' = Failure("updateStoreConfig", u, 403, "")
            /\ UNCHANGED slots
     ELSE IF ~body.hasList
       THEN /\ resp' = Response("updateStoreConfig", u, 200, <<>>, 0)
            /\ UNCHANGED slots
     ELSE /\ slots' = [slots EXCEPT ![s] =
                         [IdleSlot EXCEPT
                            !.op = "config", !.user = u, !.body = body.shippingMethods,
                            !.at = 1,
                            !.time = IF body.shippingMethods = <<>> THEN now ELSE 0,
                            !.pc = IF body.shippingMethods = <<>> THEN "delete" ELSE "method"]]
          /\ resp' = Pending("updateStoreConfig", u)
  /\ UNCHANGED <<products, carts, orders, nextCid, accounts, now, methods>>

\* One turn of the loop: await ShippingMethod.findByIdAndUpdate(...) or
\* await ShippingMethod.create(...).  After the last turn the updateMany is
\* sent, with the new Date() of this moment.
ConfigMethod(s) ==
  /\ slots[s].op = "config"
  /\ slots[s].pc = "method"
  /\ methods' = ApplyMethod(methods, slots[s].body[slots[s].at])
  /\ slots' = [slots EXCEPT
                 ![s].at = IF @ < Len(slots[s].body) THEN @ + 1 ELSE @,
                 ![s].time = IF slots[s].at < Len(slots[s].body) THEN @ ELSE now,
                 ![s].pc = IF slots[s].at < Len(slots[s].body) THEN @ ELSE "delete"]
  /\ UNCHANGED <<products, carts, orders, resp, ops, nextCid, accounts, now>>

\* await ShippingMethod.updateMany(...) and the 200 response: the update is
\* applied to the methods stored now, with the date it was sent with
ConfigDelete(s) ==
  /\ slots[s].op = "config"
  /\ slots[s].pc = "delete"
  /\ methods' = SoftDeleteOthers(methods, ReceivedMethodIds(slots[s].body), slots[s].time)
  /\ resp' = Response("updateStoreConfig", slots[s].user, 200, <<>>, 0)
  /\ slots' = [slots EXCEPT ![s] = IdleSlot]
  /\ UNCHANGED <<products, carts, orders, ops, nextCid, accounts, now>>

\* ---------------------------------------------------------------- catalog
\* Bodies of createProduct and updateProduct: the keys sent and their values.
\* The first is what productSchema admits with sale left out, the second
\* also names the hex of its colour and has an effective price on a half
\* cent (0.15 less 30 %), the third sends the name alone.
ProductBodies ==
  {[keys |-> {"name", "price", "colors", "categories"},
    name |-> "chair", price |-> 10000, sale |-> 0,
    colors |-> <<[name |-> "red", hex |-> "", quantity |-> 1]>>],
   [keys |-> {"name", "price", "sale", "colors", "categories"},
    name |-> "stool", price |-> 15, sale |-> 30,
    colors |-> <<[name |-> "ash", hex |-> "h4", quantity |-> 1]>>],
   [keys |-> {"name"},
    name |-> "chair", price |-> 0, sale |-> 0, colors |-> <<>>]}

\* Values of req.params.id of updateProduct
ProductIds == {"p1", "ghost", "bad"}

\* productSchema.validate: name, price, colors and categories are required,
\* price is at least 0, sale lies in 0..100, and a colour holds name,
\* quantity and images only (hex is "" when the colour names none)
ValidProduct(body) ==
  /\ {"name", "price", "colors", "categories"} \subseteq body.keys
  /\ body.price >= 0
  /\ body.sale \in 0..100
  /\ \A i \in DOMAIN body.colors : body.colors[i].hex = "" /\ body.colors[i].quantity >= 0

\* The _id of the document Product.create stores
NewProductId == "p4"

\* Whether the product schema declares the product-level quantity: it is the
\* same for every document
SchemaHasQuantity(prods) == \E q \in DOMAIN prods : prods[q].hasQuantity

\* POST /create: no validation of the body; categories.split of a body
\* without categories throws; sale defaults to 0
CreateProduct(body) ==
  /\ NewProductId \notin DOMAIN products
  /\ ops' = ops + 1
  /\ IF "categories" \notin body.keys
       THEN /\ resp' = Response("createProduct", "none", 500, <<>>, 0)
            /\ UNCHANGED products
     ELSE /\ products' =
               [q \in DOMAIN products \cup {NewProductId} |->
                  IF q = NewProductId
                    THEN [name |-> body.name,
                          price |-> body.price,
                          sale |-> IF "sale" \in body.keys THEN body.sale ELSE 0,
                          colors |-> body.colors,
                          hasQuantity |-> SchemaHasQuantity(products),
                          quantitySet |-> FALSE,
                          quantity |-> 0]
                    ELSE products[q]]
          /\ resp' = Response("createProduct", "none", 201, <<>>, 0)
  /\ UNCHANGED <<carts, orders, slots, nextCid, accounts, now, methods>>

\* PATCH /update/:id: the body is validated, then name, price, sale (0 when
\* not sent), the colors array and the categories are written together
UpdateProduct(id, body) ==
  /\ ops' = ops + 1
  /\ IF ~ValidProduct(body)
       THEN /\ resp' = Failure("updateProduct", "none", 400, "validation")
            /\ UNCHANGED products
     ELSE IF ~IsValidObjectId(id)
       THEN /\ resp' = Failure("updateProduct", "none", 400, "Invalid product ID.")
            /\ UNCHANGED products
     ELSE IF CastObjectId(id) \notin DOMAIN products
       THEN /\ resp' = Failure("updateProduct", "none", 404, "Product not found.")
            /\ UNCHANGED products
     ELSE /\ products' = [products EXCEPT
                            ![CastObjectId(id)].name = body.name,
                            ![CastObjectId(id)].price = body.price,
                            ![CastObjectId(id)].sale =
                               IF "sale" \in body.keys THEN body.sale ELSE 0,
                            ![CastObjectId(id)].colors = body.colors]
          /\ resp' = Response("updateProduct", "none", 200, <<>>, 0)
  /\ UNCHANGED <<carts, orders, slots, nextCid, accounts, now, methods>>

\* A change of a product's price and sale, or of the stock of one variant
CatalogChange(p) ==
  /\ p \in DOMAIN products
  /\ ops' = ops + 1
  /\ \/ \E price \in Prices, sale \in Sales :
          products' = [products EXCEPT ![p].price = price, ![p].sale = sale]
     \/ \E i \in DOMAIN products[p].colors, q \in 0..MaxStock :
          products' = [products EXCEPT ![p].colors[i].quantity = q]
  /\ UNCHANGED <<carts, orders, slots, resp, nextCid, accounts, now, methods>>

\* A product document leaves the collection.  No route does this
\* (deleteProduct sets the deleted flag of the document and keeps it); it is
\* the case the `!product.id` branches of the hook and of formatProductData
\* are written for.
RemoveProduct(p) ==
  /\ p \in DOMAIN products
  /\ ops' = ops + 1
  /\ products' = [q \in DOMAIN products \ {p} |-> products[q]]
  /\ UNCHANGED <<carts, orders, slots, resp, nextCid, accounts, now, methods>>

\* ------------------------------------------------------------------ specs
\* Requests executed one at a time: a request starts only when none is in
\* flight, and at most MaxOps requests are made
CanStart == AllIdle /\ ops < MaxOps

\* Request bodies by user: the first user sends every body, the second user,
\* whose cart and orders are the other documents of the collections, sends
\* one body per route
ItemListsOf(u) ==
  IF u = "u1" THEN ItemLists
              ELSE {<<[id |-> "p1", quantity |-> 1, colorHex |-> "h1"]>>}

UpdateInputsOf(u) ==
  IF u = "u1" THEN UpdateInputs
              ELSE {[id |-> "p1", quantity |-> 0, color |-> "h1"]}

Next ==
  \/ CanStart /\ \E u \in Users : GetUserCart(1, u)
  \/ GetUserCartPopulate(1)
  \/ CanStart /\ \E u \in Users : \E items \in ItemListsOf(u) : AddBegin(1, u, items)
  \/ AddValidate(1)
  \/ AddFind(1)
  \/ AddMerge(1)
  \/ AddHook(1)
  \/ AddSave(1)
  \/ AddReread(1)
  \/ AddPopulate(1)
  \/ CanStart /\ \E u \in Users : \E in \in UpdateInputsOf(u) : UpdBegin(1, u, in)
  \/ UpdFind(1)
  \/ UpdHook(1)
  \/ UpdSave(1)
  \/ UpdPopulate(1)
  \/ CanStart /\ \E u \in Users : OrdBegin(1, u)
  \/ OrdPopulate(1)
  \/ OrdSave(1)
  \/ OrdDec(1)
  \/ OrdDel(1)
  \/ CanStart /\ \E u \in Users, id \in OrderIds, status \in Statuses :
                   UpdateOrderStatus(u, id, status)

Spec == Init /\ [][Next]_vars

\* The same requests, with changes of the catalog between them
NextCatalog ==
  \/ Next
  \/ CanStart /\ \E p \in Products : CatalogChange(p)

SpecCatalog == Init /\ [][NextCatalog]_vars

\* The same requests, with removals of product documents between them
NextRemoval ==
  \/ Next
  \/ CanStart /\ \E p \in Products : RemoveProduct(p)

SpecRemoval == Init /\ [][NextRemoval]_vars

\* Request bodies of the concurrent runs: one unit of a variant with stock
\* for several units and of a variant with stock 1; the removal of a line
\* item and a quantity above the stock
ConcItemLists ==
  {<<[id |-> "p1", quantity |-> 1, colorHex |-> "h1"]>>,
   <<[id |-> "p2", quantity |-> 1, colorHex |-> "h3"]>>}

ConcUpdateInputs ==
  {[id |-> "p1", quantity |-> 0, color |-> "h1"],
   [id |-> "p2", quantity |-> MaxQty, color |-> "h3"]}

\* The requests that write, running concurrently: every database round trip
\* of a request in flight is a step of its own, and steps of different
\* requests interleave.
\* The product reads of addItems and updateItem (validation, merge, the
\* populate of the hook and the populate of the answer) use the price, the
\* sale and the colour variants only, which no request of these runs writes,
\* so they commute with every step of another request; they are run together
\* with the cart read or write they follow or precede, and no other step is
\* taken while one of them is due.  The product read of placeOrder uses the
\* product-level quantity, which placeOrder writes, and is a step like any
\* other.
\* The runs start with no cart stored, or with the carts of two users who
\* each added the last unit of a variant.
CanStartConc == ops < MaxOps

InitConc == InitWith(<<>>) \/ InitWith(FilledCarts)

ReadDue ==
  \E s \in Slots :
    \/ slots[s].op = "add" /\ slots[s].pc \in {"validate", "find", "merge", "hook", "populate"}
    \/ slots[s].op = "upd" /\ slots[s].pc \in {"find", "hook", "populate"}

NextConc ==
  \/ ~ReadDue /\ CanStartConc /\ \E s \in Slots, u \in Users, items \in ConcItemLists :
                                    FirstIdle(s) /\ AddBegin(s, u, items)
  \/ \E s \in Slots : AddValidate(s)
  \/ \E s \in Slots : AddFind(s)
  \/ \E s \in Slots : AddMerge(s)
  \/ \E s \in Slots : AddHook(s)
  \/ ~ReadDue /\ \E s \in Slots : AddSave(s)
  \/ ~ReadDue /\ \E s \in Slots : AddReread(s)
  \/ \E s \in Slots : AddPopulate(s)
  \/ ~ReadDue /\ CanStartConc /\ \E s \in Slots, u \in Users, in \in ConcUpdateInputs :
                                    FirstIdle(s) /\ UpdBegin(s, u, in)
  \/ \E s \in Slots : UpdFind(s)
  \/ \E s \in Slots : UpdHook(s)
  \/ ~ReadDue /\ \E s \in Slots : UpdSave(s)
  \/ \E s \in Slots : UpdPopulate(s)
  \/ ~ReadDue /\ CanStartConc /\ \E s \in Slots, u \in Users : FirstIdle(s) /\ OrdBegin(s, u)
  \/ ~ReadDue /\ \E s \in Slots : OrdPopulate(s)
  \/ ~ReadDue /\ \E s \in Slots : OrdSave(s)
  \/ ~ReadDue /\ \E s \in Slots : OrdDec(s)
  \/ ~ReadDue /\ \E s \in Slots : OrdDel(s)

SpecConc == InitConc /\ [][NextConc]_vars

\* The cart requests of one user (getCart, addItems, updateItem) running
\* concurrently with each other and
\* with updateProduct requests for a product in the cart: every database
\* round trip is a step of its own and none is held back.  The runs start
\* with the cart the user has after one addItems request for one unit of
\* p1 and one unit of p2.
TwoLineCart ==
  [cid |-> 1,
   userId |-> "u1",
   products |-> <<[id |-> "p1", color |-> [name |-> "red", hex |-> "h1"],
                   quantity |-> 1, subtotal |-> 86],
                  [id |-> "p2", color |-> [name |-> "oak", hex |-> "h3"],
                   quantity |-> 1, subtotal |-> 10000]>>,
   totalPrice |-> 10086,
   v |-> 0]

InitRace == InitWith(<<TwoLineCart>>)

RaceItemLists == ConcItemLists

RaceUpdateInputs ==
  {[id |-> "p1", quantity |-> MaxQty, color |-> ""],
   [id |-> "p2", quantity |-> 0, color |-> "h3"],
   [id |-> "p2", quantity |-> MaxQty, color |-> "h3"]}

NextRace ==
  \/ CanStartConc /\ \E s \in Slots : FirstIdle(s) /\ GetUserCart(s, "u1")
  \/ \E s \in Slots : GetUserCartPopulate(s)
  \/ CanStartConc /\ \E s \in Slots, items \in RaceItemLists :
                       FirstIdle(s) /\ AddBegin(s, "u1", items)
  \/ \E s \in Slots : AddValidate(s)
  \/ \E s \in Slots : AddFind(s)
  \/ \E s \in Slots : AddMerge(s)
  \/ \E s \in Slots : AddHook(s)
  \/ \E s \in Slots : AddSave(s)
  \/ \E s \in Slots : AddReread(s)
  \/ \E s \in Slots : AddPopulate(s)
  \/ CanStartConc /\ \E s \in Slots, in \in RaceUpdateInputs :
                       FirstIdle(s) /\ UpdBegin(s, "u1", in)
  \/ \E s \in Slots : UpdFind(s)
  \/ \E s \in Slots : UpdHook(s)
  \/ \E s \in Slots : UpdSave(s)
  \/ \E s \in Slots : UpdPopulate(s)
  \/ CanStartConc /\ \E body \in ProductBodies : UpdateProduct("p1", body)

SpecRace == InitRace /\ [][NextRace]_vars

\* The life of an order: carts are filled and checked out, the catalog
\* changes, orders are read and their status is set.  Requests run one at a
\* time with the request bodies of the concurrent runs; an order that is
\* placed, followed by a second order or a catalog change, and then read or
\* updated takes four requests.
CanStartOrders == AllIdle /\ ops < MaxOps + 1

\* An updateProduct request, which is one database round trip, is also made
\* while a getOrderDetails request is in flight
CanWriteCatalog ==
  /\ ops < MaxOps + 1
  /\ \A s \in Slots : slots[s].op \in {"idle", "details"}

\* The product whose catalog entry changes in these runs: the one with a sale
\* price and two variants
ChangedProducts == {"p1"}

\* The request bodies of these runs: those of the concurrent runs and one
\* unit of the product that createProduct stores
OrderItemLists ==
  ConcItemLists \cup {<<[id |-> NewProductId, quantity |-> 1, colorHex |-> "h4"]>>}

NextOrders ==
  \/ CanStartOrders /\ \E u \in Users, items \in OrderItemLists : AddBegin(1, u, items)
  \/ AddValidate(1)
  \/ AddFind(1)
  \/ AddMerge(1)
  \/ AddHook(1)
  \/ AddSave(1)
  \/ AddReread(1)
  \/ AddPopulate(1)
  \/ CanStartOrders /\ \E u \in Users, in \in ConcUpdateInputs : UpdBegin(1, u, in)
  \/ UpdFind(1)
  \/ UpdHook(1)
  \/ UpdSave(1)
  \/ UpdPopulate(1)
  \/ CanStartOrders /\ \E u \in Users : OrdBegin(1, u)
  \/ OrdPopulate(1)
  \/ OrdSave(1)
  \/ OrdDec(1)
  \/ OrdDel(1)
  \/ CanStartOrders /\ \E u \in Users, id \in OrderIds, status \in Statuses :
                          UpdateOrderStatus(u, id, status)
  \/ CanStartOrders /\ \E u \in Users, id \in OrderIds : GetOrderDetails(1, u, id)
  \/ GetOrderPopulate(1)
  \/ CanStartOrders /\ \E p \in ChangedProducts : CatalogChange(p)
  \/ CanWriteCatalog /\ \E id \in ProductIds, body \in ProductBodies : UpdateProduct(id, body)
  \/ CanStartOrders /\ \E body \in ProductBodies : CreateProduct(body)
  \/ CanStartOrders /\ \E p \in ChangedProducts : RemoveProduct(p)

SpecOrders == Init /\ [][NextOrders]_vars

\* The account requests, running concurrently, and the clock
CanStartAuth == ops < MaxOps

NextAuth ==
  \/ CanStartAuth /\ \E s \in Slots, email \in Emails : FirstIdle(s) /\ ForgotBegin(s, email)
  \/ \E s \in Slots : ForgotSave(s)
  \/ \E s \in Slots : SendMail(s)
  \/ CanStartAuth /\ \E s \in Slots, token \in ResetTokens, password \in Passwords :
                        FirstIdle(s) /\ ResetBegin(s, token, password)
  \/ \E s \in Slots : ResetSave(s)
  \/ CanStartAuth /\ \E s \in Slots, u \in ChangeUsers, password \in ChangePasswords :
                        FirstIdle(s) /\ ChangeBegin(s, u, password)
  \/ \E s \in Slots : ChangeCompare(s)
  \/ \E s \in Slots : ChangeSave(s)
  \/ CanStartAuth /\ \E s \in Slots, op \in {"signup", "inviteAdmin"}, email \in NewEmails :
                        FirstIdle(s) /\ SignupBegin(s, op, email, "old")
  \/ \E s \in Slots : SignupCreate(s)
  \/ CanStartAuth /\ \E s \in Slots, email \in NewEmails :
                        FirstIdle(s) /\ EditBegin(s, "u2", email)
  \/ \E s \in Slots : EditUpdate(s)
  \/ Tick

SpecAuth == Init /\ [][NextAuth]_vars

\* The store configuration requests, running concurrently, and the clock.
\* A request starts when the methods stored and the entries of the requests
\* in flight leave room for its entries.
EntriesInFlight(s) == IF slots[s].op = "config" THEN Len(slots[s].body) ELSE 0

NextConfig ==
  \/ CanStartAuth /\ \E u \in Users : GetStoreConfig(u)
  \/ CanStartAuth /\ \E s \in Slots, u \in Users : \E body \in ConfigBodies :
        /\ Len(methods) + EntriesInFlight(1) + EntriesInFlight(2)
             + Len(body.shippingMethods) <= MaxMethods
        /\ FirstIdle(s)
        /\ ConfigBegin(s, u, body)
  \/ \E s \in Slots : ConfigMethod(s)
  \/ \E s \in Slots : ConfigDelete(s)
  \/ Tick

SpecConfig == Init /\ [][NextConfig]_vars

\* ----------------------------------------------------------------- claims
\* The stock of the colour variant a line item names (0 when the product has
\* no variant of that hex)
VariantStock(prods, line) ==
  LET ci == FindColorByHex(prods[line.id].colors, line.color.hex)
  IN IF ci = 0 THEN 0 ELSE prods[line.id].colors[ci].quantity

\* The step in which user u's placeOrder request starts and reads the cart
PlaceOrderStart(u) ==
  ops' = ops + 1 /\ resp'.op = "placeOrder" /\ resp'.user = u

\* The step in which the placeOrder request of slot s, which has read the
\* cart, reads the products and checks the stock
StockCheck(s) ==
  slots[s].op = "order" /\ slots[s].pc = "populate" /\ slots'[s] # slots[s]

\* The step in which the placeOrder request of slot s answers
OrderAnswered(s) ==
  /\ slots[s].op = "order"
  /\ slots[s].pc \in {"populate", "save", "dec", "del"}
  /\ slots'[s].op = "idle" \/ slots'[s].pc = "answered"

\* The line item whose stock update is answered in a step of slot s
UpdatedLine(s) ==
  slots[s].cart.products[CHOOSE i \in slots[s].pending : i \notin slots'[s].pending]

\* The step in which the addItems request of slot s saves the cart; the
\* request then reads the cart again and answers
AddItemsDone(s) ==
  slots[s].op = "add" /\ slots[s].pc = "save" /\ slots'[s].pc = "reread"

\* C1: placeOrder on a cart with a line item whose quantity exceeds the stock
\* of its colour variant answers 400, creates no Order and leaves every
\* product's stock and the carts unchanged: the step that checks the stock of
\* such a cart ends the request with 400 and writes nothing.
C1_OverStockRejected ==
  [][\A s \in Slots :
       (/\ StockCheck(s)
        /\ \E i \in DOMAIN slots[s].cart.products :
             slots[s].cart.products[i].quantity
               > VariantStock(products, slots[s].cart.products[i]))
       => (/\ resp'.status = 400
           /\ slots'[s].op = "idle"
           /\ UNCHANGED <<orders, products, carts>>)]_vars

\* C2: the stock decrement of a successful placeOrder lowers the stock of every
\* purchased colour variant by the purchased quantity and leaves every other
\* variant and product unchanged: each stock update that is applied lowers
\* the stock of the variant of its line item by the quantity of the line and
\* changes no other variant.
C2_VariantStockDecremented ==
  [][\A s \in Slots :
       (slots[s].op = "order" /\ slots[s].pc = "dec" /\ slots'[s].pc \in {"dec", "del"})
       => \A p \in Products : \A i \in DOMAIN products[p].colors :
            products'[p].colors[i].quantity
              = products[p].colors[i].quantity
                - PurchasedVariant(<<UpdatedLine(s)>>, p, products[p].colors[i].hex)]_vars

\* C3: the totalPrice of every getCart response equals the sum of the per-item
\* subtotals of the same response.
C3_TotalIsSumOfSubtotals ==
  (resp.op = "getCart" /\ resp.status = 200)
  => resp.totalPrice = SumSeq([i \in DOMAIN resp.products |-> resp.products[i].subtotal])

\* C4: after a successful addItems call every line item the call added or
\* changed has a quantity no greater than the stock of its colour variant.
C4_AddNeverExceedsStock ==
  [][\A s \in Slots :
       AddItemsDone(s)
       => LET old == slots[s].cart.products
              saved == FindCart(carts', slots[s].user).products
          IN \A i \in DOMAIN saved :
               (i \notin DOMAIN old \/ saved[i].quantity # old[i].quantity)
               => saved[i].quantity <= VariantStock(products, saved[i])]_vars

\* C5: no cart holds two line items with the same (product id, colour hex).
C5_NoDuplicateLines ==
  \A k \in DOMAIN carts : \A i, j \in DOMAIN carts[k].products :
    i # j => ~(/\ carts[k].products[i].id = carts[k].products[j].id
               /\ carts[k].products[i].color.hex = carts[k].products[j].color.hex)

\* C6: addItems of one item (P, c, q) with variant stock s > 0 leaves the line
\* item (P, c) with quantity min(old + min(q, s), s) and a stored subtotal of
\* that quantity times P's effective price (to the cent).
C6_MergedQuantityAndSubtotal ==
  [][\A s \in Slots :
       (AddItemsDone(s) /\ Len(slots[s].items) = 1)
       => LET item == slots[s].items[1]
              P == CastObjectId(item.id)
              stock == VariantStock(products, [id |-> P, color |-> item.color])
              before == slots[s].cart.products
              oi == FirstIndex({i \in DOMAIN before :
                      before[i].id = P /\ before[i].color.hex = item.color.hex})
              old == IF oi = 0 THEN 0 ELSE before[oi].quantity
              saved == FindCart(carts', slots[s].user).products
              ni == FirstIndex({i \in DOMAIN saved :
                      saved[i].id = P /\ saved[i].color.hex = item.color.hex})
              expected == Min(old + Min(item.quantity, stock), stock)
          IN stock > 0
             => /\ ni # 0
                /\ saved[ni].quantity = expected
                /\ saved[ni].subtotal = ToFixed2(expected * EffectivePrice(products[P]), FALSE)]_vars

\* C7: placeOrder for a user with no cart, or with a cart of zero line items,
\* answers 400 'Cart is empty' at once: no Order is created, no stock
\* changes, no cart is deleted.
C7_EmptyCartRejected ==
  [][\A u \in Users :
       (/\ PlaceOrderStart(u)
        /\ (FindCart(carts, u).cid = 0 \/ Len(FindCart(carts, u).products) = 0))
       => (/\ resp'.status = 400
           /\ resp'.message = "Cart is empty"
           /\ UNCHANGED <<orders, products, carts, slots>>)]_vars

\* A placeOrder was answered 400 'Cart is empty' for a user whose cart exists
\* and is empty
C7_Witness ==
  /\ resp.op = "placeOrder"
  /\ resp.status = 400
  /\ resp.message = "Cart is empty"
  /\ FindCart(carts, resp.user).cid # 0
  /\ Len(FindCart(carts, resp.user).products) = 0

\* C8: the cart-deletion step of placeOrder answers 201 and leaves no cart for
\* the ordering user.
C8_CartDeletedAfterOrder ==
  [][\A s \in Slots :
       (slots[s].op = "order" /\ slots[s].pc = "del" /\ slots'[s].op = "idle")
       => (resp'.status = 201 /\ FindCart(carts', slots[s].user).cid = 0)]_vars

\* C9: in every Order the sum over the order items of price times quantity
\* equals the order's totalAmount.
C9_OrderItemPriceIsUnitPrice ==
  \A k \in DOMAIN orders :
    SumSeq([i \in DOMAIN orders[k].orderItems |->
              orders[k].orderItems[i].price * orders[k].orderItems[i].quantity])
      = orders[k].totalAmount

\* C10: the stock quantity of every colour variant of every product is >= 0.
C10_VariantStockNonNegative ==
  \A p \in Products : \A i \in DOMAIN products[p].colors :
    products[p].colors[i].quantity >= 0

\* An order for more units than its colour variant has in stock has passed
\* the stock decrement
C10_Witness ==
  \E s \in Slots :
    /\ slots[s].op = "order"
    /\ slots[s].pc = "del"
    /\ \E i \in DOMAIN slots[s].cart.products :
         slots[s].cart.products[i].quantity
           > VariantStock(products, slots[s].cart.products[i])

\* C11: there is at most one cart per user in every reachable state, also when
\* two addItems requests of a user without a cart run concurrently.
C11_OneCartPerUser ==
  \A u \in Users : Cardinality({k \in DOMAIN carts : carts[k].userId = u}) <= 1

\* C12: an order's status changes only in the step of an update-order-status
\* request made by a user whose role is administrator.
C12_StatusChangedByAdminOnly ==
  [][(\E k \in DOMAIN orders :
        k \in DOMAIN orders' /\ orders'[k].status # orders[k].status)
     => (resp'.op = "updateOrderStatus" /\ Role(resp'.user) = "ADMIN")]_vars

\* The error the claim gives for one item of an addItems request (0: none)
C13_ItemError(item) ==
  IF item.id = "bad" \/ item.quantity < 1 THEN 400
  ELSE IF CastObjectId(item.id) \notin Products THEN 404
  ELSE IF products[CastObjectId(item.id)].colors = <<>> THEN 400
  ELSE IF /\ item.colorHex # ""
          /\ \A i \in DOMAIN products[CastObjectId(item.id)].colors :
                products[CastObjectId(item.id)].colors[i].hex # item.colorHex
    THEN 400
  ELSE 0

\* The error of the first item of a request that has one (0: every item is valid)
C13_RequestError(items) ==
  LET bad == {i \in DOMAIN items : C13_ItemError(items[i]) # 0}
  IN IF bad = {} THEN 0 ELSE C13_ItemError(items[FirstIndex(bad)])

\* C13: an addItems request with an item that fails validation (invalid id or
\* quantity < 1, unknown product, product without colours, colorHex of no
\* variant) fails with that item's error; no cart is created and no line item
\* of an existing cart is added or changed, also when valid items precede it.
\* A request whose body holds such an item never gets past the validation,
\* writes nothing and ends with the error of its first failing item.
C13_AddItemsAllOrNothing ==
  [][\A s \in Slots :
       (slots[s].op = "add" /\ C13_RequestError(slots[s].body) # 0)
       => (/\ slots[s].pc = "validate"
           /\ UNCHANGED <<carts, products, orders>>
           /\ slots'[s].op = "idle" => resp'.status = C13_RequestError(slots[s].body))]_vars

\* An addItems request was rejected for a user whose cart holds a line item
C13_Witness ==
  /\ resp.op = "addItems"
  /\ resp.status \in {400, 404}
  /\ FindCart(carts, resp.user).products # <<>>

\* The product, colour and quantity of every line item of a cart
LineItems(lines) ==
  [i \in DOMAIN lines |->
     [id |-> lines[i].id, color |-> lines[i].color, quantity |-> lines[i].quantity]]

\* The step in which the updateItem request of slot s saves the cart; the
\* request then populates the cart and answers 200
UpdateItemDone(s) ==
  slots[s].op = "upd" /\ slots[s].pc = "save" /\ slots'[s].pc = "populate"

\* C14: a successful updateItem(product, color, q) removes the line item when
\* q = 0 and otherwise sets its quantity to exactly q, without clamping; every
\* other line item keeps its product, colour and quantity.
C14_UpdateSetsExactQuantity ==
  [][\A s \in Slots :
       UpdateItemDone(s)
       => LET in == slots[s].items[1]
              old == FindCart(carts, slots[s].user).products
              new == FindCart(carts', slots[s].user).products
          IN \E i \in DOMAIN old :
               /\ old[i].id = CastObjectId(in.id)
               /\ old[i].color.hex = in.color
               /\ LineItems(new) =
                    IF in.quantity = 0
                      THEN LineItems(RemoveAt(old, i))
                      ELSE LineItems([old EXCEPT ![i].quantity = in.quantity])]_vars

\* An updateItem was answered 200 and left a line item whose quantity exceeds
\* the stock of its colour variant
C14_Witness ==
  /\ resp.op = "updateItem"
  /\ resp.status = 200
  /\ \E i \in DOMAIN FindCart(carts, resp.user).products :
       FindCart(carts, resp.user).products[i].quantity
         > VariantStock(products, FindCart(carts, resp.user).products[i])

\* The user's cart holds no line item for the product and colour of `in`
\* (the product's first colour when none is given)
C15_NoSuchLine(u, in) ==
  LET colors == IF CastObjectId(in.id) \in Products
                  THEN products[CastObjectId(in.id)].colors ELSE <<>>
      hex == IF in.color # "" THEN in.color
             ELSE IF colors # <<>> THEN colors[1].hex ELSE ""
      lines == FindCart(carts, u).products
  IN \A i \in DOMAIN lines :
       ~(lines[i].id = CastObjectId(in.id) /\ lines[i].color.hex = hex)

\* The step in which the updateItem request of slot s reads the cart of a
\* user who has none, or whose cart has no line item for the product and
\* colour of the request
C15_ReadsNoLine(s) ==
  /\ slots[s].op = "upd"
  /\ slots[s].pc = "find"
  /\ slots'[s] # slots[s]
  /\ \/ FindCart(carts, slots[s].user).cid = 0
     \/ C15_NoSuchLine(slots[s].user, slots[s].items[1])

\* C15 as stated: updateItem answers 400 when quantity < 0, and 404 when the
\* user has no cart or the cart has no line item for the (product, colour);
\* the carts and the stock are unchanged.  A request with quantity >= 0 of
\* such a user gets no other answer when it arrives, and 404 when it has
\* read the cart.
C15_UpdateItemErrors ==
  [][/\ \A u \in Users :
          (ops' = ops + 1 /\ resp'.op = "updateItem" /\ resp'.user = u)
          => \A in \in UpdateInputs :
               UpdBegin(1, u, in)
               => /\ in.quantity < 0
                     => (resp'.status = 400 /\ UNCHANGED <<carts, products, slots>>)
                  /\ (in.quantity >= 0 /\ (FindCart(carts, u).cid = 0 \/ C15_NoSuchLine(u, in)))
                     => (resp'.status \in {0, 404} /\ UNCHANGED <<carts, products>>)
     /\ \A s \in Slots :
          C15_ReadsNoLine(s)
          => (resp'.status = 404 /\ slots'[s].op = "idle" /\ UNCHANGED <<carts, products>>)]_vars

\* The request has a valid id and, when the id names a product, a colour:
\* one given in the request or the first colour of the product
C15_WellFormed(in) ==
  /\ in.id # "bad"
  /\ CastObjectId(in.id) \in Products
       => (in.color # "" \/ products[CastObjectId(in.id)].colors # <<>>)

\* C15 amended: 400 when quantity < 0; 404 when quantity >= 0, the id is
\* valid, the product, if it exists, has a colour for the request (given, or
\* the product's first), and the user has no cart or the cart has no line
\* item for the (product, colour); the carts and the stock are unchanged.
\* Such a request gets no other answer when it arrives, 404 at once when its
\* id names no product, and 404 when it has read the cart.
C15_UpdateItemErrorsWellFormed ==
  [][/\ \A u \in Users :
          (ops' = ops + 1 /\ resp'.op = "updateItem" /\ resp'.user = u)
          => \A in \in UpdateInputs :
               UpdBegin(1, u, in)
               => /\ in.quantity < 0
                     => (resp'.status = 400 /\ UNCHANGED <<carts, products, slots>>)
                  /\ (/\ in.quantity >= 0
                      /\ C15_WellFormed(in)
                      /\ (FindCart(carts, u).cid = 0 \/ C15_NoSuchLine(u, in)))
                     => (resp'.status \in {0, 404} /\ UNCHANGED <<carts, products>>)
                  /\ (/\ in.quantity >= 0
                      /\ C15_WellFormed(in)
                      /\ CastObjectId(in.id) \notin Products)
                     => (resp'.status = 404 /\ UNCHANGED <<carts, products, slots>>)
     /\ \A s \in Slots :
          C15_ReadsNoLine(s)
          => (resp'.status = 404 /\ slots'[s].op = "idle" /\ UNCHANGED <<carts, products>>)]_vars

\* An updateItem was answered 404 because the user's cart, which holds line
\* items, has none for the requested product and colour
C15_Witness ==
  /\ resp.op = "updateItem"
  /\ resp.status = 404
  /\ resp.message = "Product not found in cart."
  /\ FindCart(carts, resp.user).products # <<>>

\* C16: getCart answers 404 exactly when the user has no cart; a cart with zero
\* line items is returned (200) with an empty product list; getCart changes no
\* cart, no order and no stock.  The request is answered 404 when it reads
\* the carts and finds none of the user, and otherwise 200, then or when it
\* has read the products of the cart.
C16_GetCartNotFoundOnlyWithoutCart ==
  [][/\ (ops' = ops + 1 /\ resp'.op = "getCart")
          => LET mine == {k \in DOMAIN carts : carts[k].userId = resp'.user}
             IN /\ IF mine = {} THEN resp'.status = 404 ELSE resp'.status \in {0, 200}
                /\ (mine # {} /\ \A k \in mine : carts[k].products = <<>>)
                     => (resp'.status = 200 /\ resp'.products = <<>>)
                /\ UNCHANGED <<carts, products, orders>>
     /\ \A s \in Slots :
          (slots[s].op = "get" /\ slots'[s] # slots[s])
          => /\ resp'.op = "getCart"
             /\ resp'.status = 200
             /\ \E k \in DOMAIN carts : carts[k].userId = slots[s].user
             /\ slots'[s].op = "idle"
             /\ UNCHANGED <<carts, products, orders>>]_vars

\* A getCart was answered 200 with an empty product list for a user whose
\* cart exists and holds zero line items
C16_Witness ==
  /\ resp.op = "getCart"
  /\ resp.status = 200
  /\ resp.products = <<>>
  /\ \E k \in DOMAIN carts : carts[k].userId = resp.user /\ carts[k].products = <<>>

\* C17: two placeOrder requests of different users for the same variant, each
\* within the stock and together above it, can both pass the stock check
\* before either decrements, and both succeed.  A request that has passed its
\* stock check is never checked again: its next step persists its Order
\* (or the save is rejected and the request ends with 500), every stock
\* update applied after that lowers the stock by the full quantity of its
\* line item whatever the stock then is, and none of its steps answers 400.
C17_NoRecheckAfterStockCheck ==
  [][\A s \in Slots :
       (slots[s].op = "order" /\ slots[s].pc # "populate" /\ slots'[s] # slots[s])
       => /\ slots[s].pc = "save"
             => \/ orders' = Append(orders, slots[s].order) /\ slots'[s].pc = "dec"
                \/ slots'[s].op = "idle" /\ UNCHANGED <<orders, products, carts>>
          /\ (slots[s].pc = "dec" /\ slots'[s].pc \in {"dec", "del"})
             => \A p \in Products :
                  products'[p].quantity =
                    IF products[p].hasQuantity /\ p = UpdatedLine(s).id
                      THEN products[p].quantity - UpdatedLine(s).quantity
                      ELSE products[p].quantity
          /\ OrderAnswered(s) => resp'.status \in {201, 500}
          /\ slots[s].pc = "answered" => resp' = resp]_vars

\* The orders of two users are both persisted and neither has decremented the
\* stock yet; each asks for a quantity of the same variant that is within its
\* stock, and the two quantities together exceed it
C17_Witness ==
  \E s, t \in Slots :
    /\ slots[s].op = "order" /\ slots[s].pc = "dec"
    /\ slots[t].op = "order" /\ slots[t].pc = "dec"
    /\ slots[s].pending = DOMAIN slots[s].cart.products
    /\ slots[t].pending = DOMAIN slots[t].cart.products
    /\ slots[s].user # slots[t].user
    /\ \E k, l \in DOMAIN orders :
         k # l /\ orders[k].userId = slots[s].user /\ orders[l].userId = slots[t].user
    /\ \E i \in DOMAIN slots[s].cart.products, j \in DOMAIN slots[t].cart.products :
         LET a == slots[s].cart.products[i]
             b == slots[t].cart.products[j]
         IN /\ a.id = b.id /\ a.color.hex = b.color.hex
            /\ a.quantity <= VariantStock(products, a)
            /\ b.quantity <= VariantStock(products, b)
            /\ a.quantity + b.quantity > VariantStock(products, a)

\* The stored cart document with the given _id (NullCart when there is none)
StoredCart(cs, cid) ==
  LET at == FirstIndex({k \in DOMAIN cs : cs[k].cid = cid})
  IN IF at = 0 THEN NullCart ELSE cs[at]

\* C18: two concurrent addItems requests of a user on an existing cart can both
\* read the cart before either saves, and the cart persisted after both lacks
\* the effect of one of them.  A successful addItems that raises the quantity
\* of a line item of the cart it read stores the quantity computed from the
\* cart it read, min(read quantity + min(q, stock), stock), whatever quantity
\* is stored when it saves.
C18_SaveWritesFromStaleRead ==
  [][\A s \in Slots :
       (AddItemsDone(s) /\ slots[s].cart.cid # 0 /\ Len(slots[s].items) = 1)
       => LET item == slots[s].items[1]
              read == slots[s].cart.products
              i == FindLine(read, item.id, item.color.hex)
              stock == VariantStock(products, [id |-> CastObjectId(item.id),
                                               color |-> item.color])
              computed == Min(read[i].quantity + Min(item.quantity, stock), stock)
          IN (i # 0 /\ computed # read[i].quantity)
             => StoredCart(carts', slots[s].cart.cid).products[i].quantity = computed]_vars

\* An addItems request in flight read a line item before another addItems
\* request of the same user raised its stored quantity; the stock covers both
\* increases, and the save of the request in flight will pass the version test
C18_Witness ==
  \E s \in Slots :
    /\ slots[s].op = "add"
    /\ slots[s].pc = "save"
    /\ slots[s].cart.cid # 0
    /\ LET item == slots[s].items[1]
           read == slots[s].cart
           stored == StoredCart(carts, read.cid)
           i == FindLine(read.products, item.id, item.color.hex)
       IN /\ i # 0
          /\ stored.cid # 0
          /\ stored.v = read.v
          /\ stored.products[i].quantity > read.products[i].quantity
          /\ stored.products[i].quantity + item.quantity
               <= VariantStock(products, stored.products[i])

\* C19: once no addItems or updateItem request of a cart's user is in flight,
\* the cart's stored totalPrice equals the sum of the stored subtotals of its
\* line items, after any interleaving of the user's concurrent cart mutations.
C19_TotalMatchesLinesAfterRace ==
  \A k \in DOMAIN carts :
    (\A s \in Slots : ~(slots[s].op \in {"add", "upd"} /\ slots[s].user = carts[k].userId))
    => carts[k].totalPrice
         = SumSeq([i \in DOMAIN carts[k].products |-> carts[k].products[i].subtotal])

\* C20: placeOrder writes in the order Order, stock, cart.  Its first write
\* persists the Order and nothing else (a rejected save ends the request
\* with 500 and nothing written), its stock updates change only the stock
\* and its last write only the carts; when a stock update or the deletion
\* fails the request answers 500, the Order stays persisted, no stock is
\* raised again, then or later, and no cart is deleted.
C20_NoRollbackAfterOrderSaved ==
  [][\A s \in Slots :
       (slots[s].op = "order" /\ slots[s].pc # "populate" /\ slots'[s] # slots[s])
       => /\ slots[s].pc = "save"
             => /\ \/ orders' = Append(orders, slots[s].order) /\ slots'[s].pc = "dec"
                   \/ /\ slots'[s].op = "idle"
                      /\ resp'.status = 500
                      /\ orders' = orders
                /\ UNCHANGED <<products, carts>>
          /\ slots[s].pc = "dec"
             => /\ \E k \in DOMAIN orders : orders[k] = slots[s].order
                /\ slots'[s].pc \in {"dec", "del"} \/ (OrderAnswered(s) /\ resp'.status = 500)
                /\ UNCHANGED <<orders, carts>>
          /\ slots[s].pc = "answered"
             => /\ \E k \in DOMAIN orders : orders[k] = slots[s].order
                /\ slots'[s].pc = "answered" \/ slots'[s].op = "idle"
                /\ UNCHANGED <<orders, carts, resp>>
          /\ slots[s].pc = "del"
             => /\ slots'[s].op = "idle"
                /\ UNCHANGED <<orders, products>>
          /\ slots[s].pc \in {"dec", "answered", "del"}
             => \A p \in Products : products'[p].quantity <= products[p].quantity
          /\ (slots[s].pc \in {"dec", "del"} /\ OrderAnswered(s) /\ resp'.status = 500)
             => /\ \E k \in DOMAIN orders' : orders'[k] = slots[s].order
                /\ orders' = orders
                /\ carts' = carts]_vars

\* A placeOrder was answered 500 after its Order was persisted: the Order is
\* stored, a stock decrement it applied is still in place and the user's cart
\* still holds its line items
C20_Witness ==
  /\ resp.op = "placeOrder"
  /\ resp.status = 500
  /\ \E k \in DOMAIN orders :
       /\ orders[k].userId = resp.user
       /\ \E i \in DOMAIN orders[k].orderItems :
            /\ products[orders[k].orderItems[i].id].hasQuantity
            /\ products[orders[k].orderItems[i].id].quantity < MaxStock
  /\ FindCart(carts, resp.user).products # <<>>

\* The step in which a request of slot s saves the cart and answers success
CartSaved(s) == AddItemsDone(s) \/ UpdateItemDone(s)

\* C21: after every successful save of a cart the stored cart holds no line
\* item whose product document does not exist.
C21_SaveDropsUnresolvedLines ==
  [][\A s \in Slots :
       CartSaved(s)
       => \A i \in DOMAIN FindCart(carts', slots[s].user).products :
            FindCart(carts', slots[s].user).products[i].id \in DOMAIN products']_vars

\* The total the claim gives for a cart: the sum over the line items with a
\* resolvable product of quantity times effective price, to the cent
C22_ClaimedTotal(prods, cart) ==
  ToFixed2(SumSeq([i \in DOMAIN cart.products |->
                     IF cart.products[i].id \in DOMAIN prods
                       THEN cart.products[i].quantity
                              * EffectivePrice(prods[cart.products[i].id])
                       ELSE 0]), FALSE)

\* C22: after every successful cart save of addItems or updateItem the stored
\* totalPrice equals the sum over the line items with a resolvable product of
\* quantity times the product's effective price at save time, and no step
\* other than a cart save changes the totalPrice of a cart.
C22_TotalWrittenBySaveOnly ==
  [][/\ \A s \in Slots :
          CartSaved(s)
          => FindCart(carts', slots[s].user).totalPrice
               = C22_ClaimedTotal(products', FindCart(carts', slots[s].user))
     /\ (\A s \in Slots : ~(/\ slots[s].op \in {"add", "upd"}
                             /\ slots[s].pc = "save"
                             /\ slots'[s] # slots[s]))
          => \A k \in DOMAIN carts, l \in DOMAIN carts' :
               carts[k].cid = carts'[l].cid => carts'[l].totalPrice = carts[k].totalPrice]_vars

\* C23: the items of an order-details response carry the name, price,
\* quantity and colour stored in the order at checkout, whatever the catalog
\* holds when the order is read.
C23_OrderDetailsAreSnapshot ==
  (resp.op = "getOrderDetails" /\ resp.status = 200)
  => \E k \in DOMAIN orders :
       /\ Len(resp.products) = Len(orders[k].orderItems)
       /\ \A i \in DOMAIN resp.products :
            /\ resp.products[i].name = orders[k].orderItems[i].name
            /\ resp.products[i].price = orders[k].orderItems[i].price
            /\ resp.products[i].quantity = orders[k].orderItems[i].quantity
            /\ resp.products[i].color = orders[k].orderItems[i].color

\* A step of a getCart, addItems or updateItem request: its start, or a
\* step of the request in flight
CartRequestStep ==
  \/ ops' = ops + 1 /\ resp'.op \in {"getCart", "addItems", "updateItem"}
  \/ \E s \in Slots : slots[s].op \in {"get", "add", "upd"} /\ slots'[s] # slots[s]

\* C24: no step of getCart, addItems or updateItem, answered with success or
\* with an error, changes a product document; among the cart and checkout
\* requests only the stock decrement of placeOrder does (a stock update of
\* its line items, answered before or after the request is).
C24_CartNeverWritesStock ==
  [][/\ CartRequestStep => products' = products
     /\ products' # products
          => \E s \in Slots : slots[s].op = "order" /\ slots[s].pc \in {"dec", "answered"}]_vars

\* An addItems was answered 201 and left a line item in the user's cart while
\* every colour variant still has its initial stock
C24_Witness ==
  /\ resp.op = "addItems"
  /\ resp.status = 201
  /\ FindCart(carts, resp.user).products # <<>>
  /\ \A p \in Products : products[p].colors = InitColors(p)

\* C25: a stored Order stays stored, and its user, line items, shipping
\* address, payment method, transaction reference and totalAmount never
\* change in any step; its status changes only in the step of an
\* updateOrderStatus request answered 200, to the status of the request, and
\* that step changes no other order.
C25_OrderFrozenExceptStatus ==
  [][\A k \in DOMAIN orders :
       /\ k \in DOMAIN orders'
       /\ [orders'[k] EXCEPT !.status = orders[k].status] = orders[k]
       /\ orders'[k].status # orders[k].status
            => /\ resp'.op = "updateOrderStatus"
               /\ resp'.status = 200
               /\ orders'[k].status \in Statuses
               /\ \A l \in DOMAIN orders \ {k} : orders'[l] = orders[l]]_vars

\* An updateOrderStatus was answered 200 with two orders stored: one has the
\* new status, the other is still pending
C25_Witness ==
  /\ resp.op = "updateOrderStatus"
  /\ resp.status = 200
  /\ \E k, l \in DOMAIN orders :
       /\ orders[k].status # "pending"
       /\ orders[l].status = "pending"
       /\ orders[k].orderItems # <<>>

\* The index of the line item for product P and colour hex (0: none)
LineOf(lines, P, hex) ==
  FirstIndex({i \in DOMAIN lines : lines[i].id = P /\ lines[i].color.hex = hex})

\* C26: an addItems request with an item whose colour variant has stock 0
\* answers 201; the line item of that (product, colour) is not created and
\* not changed, every item whose variant has stock is in the saved cart, and
\* no stored line item has quantity 0.
C26_OutOfStockItemDropped ==
  [][\A s \in Slots :
       /\ (slots[s].op = "add" /\ slots[s].pc = "save" /\ slots'[s] # slots[s])
          => LET items == slots[s].items
                 old == slots[s].cart.products
                 saved == FindCart(carts', slots[s].user).products
                 P(k) == CastObjectId(items[k].id)
                 stock(k) == VariantStock(products, [id |-> P(k), color |-> items[k].color])
             IN (\E k \in DOMAIN items : stock(k) = 0)
                => /\ slots'[s].pc = "reread"
                   /\ \A k \in DOMAIN items :
                        LET oi == LineOf(old, P(k), items[k].color.hex)
                            ni == LineOf(saved, P(k), items[k].color.hex)
                        IN /\ stock(k) = 0
                                => IF oi = 0 THEN ni = 0
                                   ELSE ni # 0 /\ saved[ni].quantity = old[oi].quantity
                           /\ stock(k) > 0 => ni # 0
                   /\ \A i \in DOMAIN saved : saved[i].quantity >= 1
       /\ (slots[s].op = "add" /\ slots[s].pc = "reread" /\ slots'[s] # slots[s])
          => (slots'[s].pc = "populate" \/ resp'.status = 201)
       /\ (slots[s].op = "add" /\ slots[s].pc = "populate" /\ slots'[s] # slots[s])
          => resp'.status = 201]_vars

\* C27: no step of a placeOrder request of user U, answered with success or
\* with an error, deletes or changes the cart of another user: every cart of
\* another user is stored after the step with the same line items and
\* totalPrice.
C27_OtherCartsUntouched ==
  [][\A s \in Slots :
       (slots[s].op = "order" /\ slots'[s] # slots[s])
       => \A k \in DOMAIN carts :
            carts[k].userId # slots[s].user
            => \E l \in DOMAIN carts' :
                 /\ carts'[l].cid = carts[k].cid
                 /\ carts'[l].products = carts[k].products
                 /\ carts'[l].totalPrice = carts[k].totalPrice]_vars

\* C28: the stock that clamps an item of addItems is the stock of the variant
\* whose hex is stored on the line item: a successful request of one item
\* (P, hex, q) for which the cart has no line creates, when that variant has
\* stock, the line (P, hex) with quantity min(q, stock of variant hex).
C28_ClampUsesResolvedVariant ==
  [][\A s \in Slots :
       (AddItemsDone(s) /\ Len(slots[s].items) = 1)
       => LET item == slots[s].items[1]
              P == CastObjectId(item.id)
              stock == VariantStock(products, [id |-> P, color |-> item.color])
              saved == FindCart(carts', slots[s].user).products
              ni == LineOf(saved, P, item.color.hex)
          IN (LineOf(slots[s].cart.products, P, item.color.hex) = 0 /\ stock > 0)
             => (ni # 0 /\ saved[ni].quantity = Min(item.quantity, stock))]_vars

\* The accounts that hold `token` as the reset token issued to the user and
\* not used
C29_IssuedTo(token) ==
  {k \in DOMAIN accounts : token.kind = "jwt" /\ accounts[k].resetToken = token}

\* ... and not expired
C29_ValidFor(token) ==
  {k \in C29_IssuedTo(token) : accounts[k].resetTokenExpiry >= now}

\* C29: a resetPassword request changes a password only of a user to whom the
\* token was issued, unused and not expired; with any other token (used,
\* expired, missing or null) it answers 400 and changes no password.  The
\* request passes the test of the token only for such a user, and its save
\* changes the password of a user who still holds the token.
C29_ResetNeedsIssuedToken ==
  [][/\ (ops' = ops + 1 /\ resp'.op = "resetPassword")
          => \A s \in Slots, token \in ResetTokens, password \in Passwords :
               ResetBegin(s, token, password)
               => IF C29_ValidFor(token) = {}
                    THEN resp'.status = 400 /\ UNCHANGED <<slots, accounts>>
                    ELSE slots'[s].at \in C29_ValidFor(token)
     /\ \A s \in Slots :
          (slots[s].op = "reset" /\ slots'[s].op = "idle")
          => \A k \in DOMAIN accounts :
               accounts'[k].password # accounts[k].password
               => k \in C29_IssuedTo(slots[s].token)]_vars

\* A stored method that getStoreConfig returns
C30_Live(m) == m.isActive /\ m.deletedAt = NullDate

\* C30: after an updateStoreConfig request answered 200 for a body with a
\* shippingMethods list, every stored method matched by the _id of an entry
\* is active and not soft-deleted, every entry without _id has a method of
\* its own, not named by an _id of the list, that is active and not
\* soft-deleted, and every method that was active and is not named by the
\* list is soft-deleted.
C30_ListedMethodsLive ==
  [][\A s \in Slots :
       (slots[s].op = "config" /\ slots'[s].op = "idle" /\ resp'.status = 200)
       => LET list == slots[s].body
              created == {i \in DOMAIN list : list[i]._id = 0}
              unnamed == {k \in DOMAIN methods' :
                            k \notin ReceivedMethodIds(list) /\ C30_Live(methods'[k])}
          IN /\ \A i \in DOMAIN list :
                  list[i]._id \in DOMAIN methods' => C30_Live(methods'[list[i]._id])
             /\ Cardinality(unnamed) >= Cardinality(created)
             /\ \A i \in created : \E k \in unnamed : methods'[k].name = list[i].name
             /\ \A k \in DOMAIN methods :
                  (C30_Live(methods[k]) /\ k \notin ReceivedMethodIds(list))
                  => methods'[k].deletedAt # NullDate]_vars

====
